------------------------ MODULE BatchSchedulerProofs ------------------------
(***************************************************************************)
(* Theorems about the scheduler's queues, for any number of requests, ranks *)
(* and batches.  There are three invariants and a sum.                     *)
(*                                                                         *)
(* HeldInv: ADP balance holds no request back for more than                *)
(* max_waiting_steps rounds in a row.  HeldBackBounded is not inductive:   *)
(* the counter of rounds is shared, and is reset whenever the waiting      *)
(* requests are distributed.  A request that escaped such a distribution   *)
(* could be held back for another full count.  HeldWaits says that none    *)
(* escapes: what is held back waits where the next round collects it.      *)
(*                                                                         *)
(* PlacesInv: a request is in one place, or nowhere.  What a result moves  *)
(* depends on the steps under way, so FlightInv ties those to the queues:  *)
(* such a request is in the batch, or was taken out of it.                 *)
(*                                                                         *)
(* ResourceInv: what a launch frees is nobody's who goes on.  Between the  *)
(* end of Schedule and the launch, results come back and move requests;    *)
(* LiveNamed says that the ids that were taken still name everyone.        *)
(*                                                                         *)
(* NoBetterRank is about sums: what DistributeRequestsByToken leaves on    *)
(* the ranks.  Longest first, each to the rank with the least work: where  *)
(* the last of a rank, its shortest, was put there was least work before   *)
(* it, and no rank has less now (GreedyBalances).                          *)
(***************************************************************************)
EXTENDS BatchScheduler, DataFacts

UsesADPBalance == config.enable_balance /\ config.attn_data_parallel_size > 1

RoundTypes ==
  /\ schedule.at \in {"none", "balance", "strategies"}
  /\ adp_balance_waiting_iters \in 0..max_waiting_steps
  /\ held \in [Requests -> Nat]

HeldInRounds == \A r \in Requests : held[r] <= adp_balance_waiting_iters

HeldWaits ==
  \A r \in Requests : held[r] # 0 =>
    /\ UsesADPBalance
    /\ r \in (IF schedule.at = "balance" THEN schedule.collected ELSE waiting_reqs)

HeldInv == RoundTypes /\ HeldInRounds /\ HeldWaits

\* Nobody is held back before the first round.
LEMMA HeldInit == Init => HeldInv
  BY BatchSchedulerAssumption
  DEF Init, HeldInv, RoundTypes, HeldInRounds, HeldWaits, NoSchedule

\* What the steps outside Schedule share: no round is under way or ends.
LEMMA HeldFrame ==
  ASSUME HeldInv,
         UNCHANGED <<config, schedule, adp_balance_waiting_iters, held>>,
         waiting_reqs \subseteq waiting_reqs'
  PROVE  HeldInv'
  BY DEF HeldInv, RoundTypes, HeldInRounds, HeldWaits, UsesADPBalance

\* A round starts by collecting everything that was put back.
LEMMA HeldCollect ==
  ASSUME HeldInv, NEW b, CollectWaitingReqs(b)
  PROVE  HeldInv'
  BY DEF HeldInv, RoundTypes, HeldInRounds, HeldWaits, UsesADPBalance,
         CollectWaitingReqs, MutexIsFree, NoSchedule, requests, batch_states, adp

\* Without ADP balance nobody is ever held back.
LEMMA HeldBalance ==
  ASSUME HeldInv, NEW b, BalanceWaitingReqs(b)
  PROVE  HeldInv'
  BY DEF HeldInv, RoundTypes, HeldInRounds, HeldWaits, UsesADPBalance,
         BalanceWaitingReqs, AtBalance, Balanced, adp

\* The decision of a round: everyone is distributed, or everyone is put back
\* and the time-out has not been reached.
LEMMA HeldADP ==
  ASSUME HeldInv, NEW b, BalanceADPRequests(b)
  PROVE  HeldInv'
<1>1. /\ schedule.at = "balance"
      /\ schedule' = [batch |-> b, at |-> "strategies", collected |-> {}]
      /\ UsesADPBalance
      /\ config' = config
  BY DEF BalanceADPRequests, AtBalance, Balanced, UsesADPBalance
<1>2. \A r \in Requests : held[r] # 0 => r \in ADPPool(b)
  BY <1>1 DEF HeldInv, HeldWaits, ADPPool
<1>3. UsesADPBalance'
  BY <1>1 DEF UsesADPBalance
<1>4. CASE ShouldProceedPrefill(b)
  <2>1. /\ adp_balance_waiting_iters' = 0
        /\ held' = [r \in Requests |-> IF r \in ADPPool(b) THEN 0 ELSE held[r]]
    BY <1>4 DEF BalanceADPRequests
  <2>2. held' = [r \in Requests |-> 0]
    BY <1>2, <2>1 DEF HeldInv, RoundTypes
  <2> QED
    BY <1>1, <2>1, <2>2, BatchSchedulerAssumption
    DEF HeldInv, RoundTypes, HeldInRounds, HeldWaits
<1>5. CASE ~ShouldProceedPrefill(b)
  <2>1. /\ adp_balance_waiting_iters' = adp_balance_waiting_iters + 1
        /\ held' = [r \in Requests |->
             IF r \in ADPPool(b) THEN held[r] + 1 ELSE held[r]]
        /\ waiting_reqs' = waiting_reqs \cup ADPPool(b)
    BY <1>5 DEF BalanceADPRequests
  <2>2. adp_balance_waiting_iters < max_waiting_steps
    <3>1. ~(adp_balance_waiting_iters >= max_waiting_steps)
      BY <1>5, Zenon DEF ShouldProceedPrefill, IsADPBalanceTimeout
    <3> QED
      BY <3>1, BatchSchedulerAssumption DEF HeldInv, RoundTypes
  <2>3. RoundTypes'
    BY <1>1, <2>1, <2>2, BatchSchedulerAssumption DEF HeldInv, RoundTypes
  <2>4. HeldInRounds'
    BY <2>1, BatchSchedulerAssumption DEF HeldInv, RoundTypes, HeldInRounds
  <2>5. HeldWaits'
    BY <1>1, <1>2, <1>3, <2>1 DEF HeldInv, RoundTypes, HeldWaits
  <2> QED
    BY <2>3, <2>4, <2>5 DEF HeldInv
<1> QED
  BY <1>4, <1>5

\* A round ends; what was put back stays where it is.
LEMMA HeldStrategies ==
  ASSUME HeldInv, NEW b, ScheduleStrategies(b)
  PROVE  HeldInv'
<1>1. /\ schedule.at = "strategies"
      /\ schedule' = NoSchedule
      /\ UNCHANGED <<config, waiting_reqs, adp_balance_waiting_iters, held>>
  BY DEF ScheduleStrategies, adp
<1> QED
  BY <1>1 DEF HeldInv, RoundTypes, HeldInRounds, HeldWaits, UsesADPBalance,
              NoSchedule

\* Every step keeps the invariant of the rounds.
LEMMA HeldStep == HeldInv /\ [Next]_vars => HeldInv'
<1> SUFFICES ASSUME HeldInv, [Next]_vars PROVE HeldInv'
  OBVIOUS
<1>1. CASE \E G \in Groups : AddInferRequest(G)
  BY <1>1, HeldFrame DEF AddInferRequest, adp
<1>2. CASE \E r \in Requests : StopRequest(r)
  BY <1>2, HeldFrame DEF StopRequest, queues, adp
<1>3. CASE MaxWaitingTimePasses
  BY <1>3, HeldFrame DEF MaxWaitingTimePasses, queues
<1>4. ASSUME NEW b \in Batches, LoopStep(b)
      PROVE  HeldInv'
  <2>1. CASE WaitUntilHaveReqs(b)
    BY <2>1, HeldFrame DEF WaitUntilHaveReqs, queues, adp
  <2>2. CASE CollectWaitingReqs(b)
    BY <2>2, HeldCollect
  <2>3. CASE BalanceWaitingReqs(b)
    BY <2>3, HeldBalance
  <2>4. CASE BalanceADPRequests(b)
    BY <2>4, HeldADP
  <2>5. CASE ScheduleStrategies(b)
    BY <2>5, HeldStrategies
  <2>6. CASE TryToLaunchPlannedScheduleOutput(b)
    BY <2>6, HeldFrame DEF TryToLaunchPlannedScheduleOutput, adp
  <2> QED
    BY <1>4, <2>1, <2>2, <2>3, <2>4, <2>5, <2>6 DEF LoopStep
<1>5. ASSUME NEW b \in Batches, UpdateWithGenerationResult(b)
      PROVE  HeldInv'
  BY <1>5, HeldFrame DEF UpdateWithGenerationResult, adp
<1>6. CASE UNCHANGED vars
  BY <1>6, HeldFrame DEF vars, queues, adp
<1> QED
  BY <1>1, <1>2, <1>3, <1>4, <1>5, <1>6 DEF Next

\* IsADPBalanceTimeout and the put-back: no request is held back for more than
\* max_waiting_steps rounds in a row.
THEOREM HeldBackBoundedCorrect == Spec => []HeldBackBounded
<1>1. HeldInv => HeldBackBounded
  BY BatchSchedulerAssumption
  DEF HeldInv, RoundTypes, HeldInRounds, HeldBackBounded
<1> QED
  BY HeldInit, HeldStep, <1>1, PTL DEF Spec
-----------------------------------------------------------------------------
(***************************************************************************)
(* Every request is in one place.                                          *)
(***************************************************************************)

\* The BatchStates in use.
ActiveSlots == Ranks \X Batches

NotIn(queue, r) == \A s \in Slots : r \notin queue[s]
OnlyAt(queue, s, r) == \A t \in Slots : r \in queue[t] <=> t = s
NotInDp(r) == \A i \in 1..MaxDp : r \notin dp_waiting_reqs[i]
NotInBatchStates(r) ==
  /\ NotIn(waiting_queue, r) /\ NotIn(decoding_queue, r)
  /\ NotIn(running_reqs, r) /\ NotIn(async_recomputed_reqs, r)

Nowhere(r) ==
  /\ NotInBatchStates(r) /\ NotInDp(r)
  /\ r \notin waiting_reqs /\ r \notin schedule.collected
OnlyArrived(r) ==
  /\ NotInBatchStates(r) /\ NotInDp(r)
  /\ r \in waiting_reqs /\ r \notin schedule.collected
OnlyCollected(r) ==
  /\ NotInBatchStates(r) /\ NotInDp(r)
  /\ r \notin waiting_reqs /\ r \in schedule.collected
OnlyDp(r) ==
  /\ NotInBatchStates(r)
  /\ \E i \in Ranks : \A j \in 1..MaxDp : r \in dp_waiting_reqs[j] <=> j = i
  /\ r \notin waiting_reqs /\ r \notin schedule.collected

OutOfPool(r) == NotInDp(r) /\ r \notin waiting_reqs /\ r \notin schedule.collected

OnlyWaiting(r, s) ==
  /\ OnlyAt(waiting_queue, s, r) /\ NotIn(decoding_queue, r)
  /\ NotIn(running_reqs, r) /\ NotIn(async_recomputed_reqs, r)
  /\ OutOfPool(r)
OnlyDecoding(r, s) ==
  /\ NotIn(waiting_queue, r) /\ OnlyAt(decoding_queue, s, r)
  /\ NotIn(running_reqs, r) /\ NotIn(async_recomputed_reqs, r)
  /\ OutOfPool(r)
OnlyRunning(r, s) ==
  /\ NotIn(waiting_queue, r) /\ NotIn(decoding_queue, r)
  /\ OnlyAt(running_reqs, s, r) /\ NotIn(async_recomputed_reqs, r)
  /\ OutOfPool(r)
OnlyAsync(r, s) ==
  /\ NotIn(waiting_queue, r) /\ NotIn(decoding_queue, r)
  /\ NotIn(running_reqs, r) /\ OnlyAt(async_recomputed_reqs, s, r)
  /\ OutOfPool(r)

InOnePlace(r) ==
  \/ OnlyArrived(r) \/ OnlyCollected(r) \/ OnlyDp(r)
  \/ \E s \in ActiveSlots : \/ OnlyWaiting(r, s) \/ OnlyDecoding(r, s)
                            \/ OnlyRunning(r, s) \/ OnlyAsync(r, s)

PlaceInv ==
  \A r \in Requests :
    /\ InOnePlace(r) \/ Nowhere(r)
    /\ status[r] = "accepted" /\ r \notin stopped => InOnePlace(r)
    /\ status[r] # "accepted" => Nowhere(r)

\* What has a step under way is in the batch or was taken out of it.
FlightInv ==
  \A b \in Batches : \A r \in InFlight(b) :
    \E i \in Ranks : OnlyRunning(r, <<i, b>>) \/ OnlyAsync(r, <<i, b>>)

ScheduleInv == schedule.at # "balance" => schedule.collected = {}

StepsRemain == \A r \in Requests : r \notin stopped => steps_left[r] >= 1

PlacesInv ==
  TypeOK /\ ScheduleInv /\ StepsRemain /\ PlaceInv /\ FlightInv

-----------------------------------------------------------------------------
(***************************************************************************)
(* The executor keeps what a request needs.                                *)
(***************************************************************************)

\* A request with KV, or with a step under way, is past the waiting queues.
KvInv ==
  \A r \in kv_cached : \E s \in ActiveSlots :
    r \in decoding_queue[s] \cup running_reqs[s] \cup async_recomputed_reqs[s]

FlightKeepsResources ==
  \A b \in Batches : \A r \in InFlight(b) : r \notin stopped => r \in resources

\* Until the launch, the ids taken at the end of Schedule name everyone.
LiveNamed ==
  FreesInactive =>
    \A b \in Batches : loop[b] = "launch" =>
      \A s \in ActiveSlots :
        s[2] = b =>
          (running_reqs[s] \cup decoding_queue[s] \cup async_recomputed_reqs[s])
              \ stopped
            \subseteq live_req_ids[s]

Keeps == KvInv /\ FlightKeepsResources /\ LiveNamed /\ LiveKeepsResources

ResourceInv == PlacesInv /\ Keeps

-----------------------------------------------------------------------------
(***************************************************************************)
(* Types.                                                                  *)
(***************************************************************************)

\* The ranks and batches in use are among those there can be.
LEMMA Actives ==
  ASSUME TypeOK
  PROVE  /\ Ranks \subseteq 1..MaxDp /\ Batches \subseteq 1..MaxPp
         /\ ActiveSlots \subseteq Slots
         /\ \A i \in Ranks, b \in Batches : <<i, b>> \in ActiveSlots
         /\ \A s \in ActiveSlots : s[1] \in Ranks /\ s[2] \in Batches
                                     /\ s = <<s[1], s[2]>>
<1>1. /\ config.attn_data_parallel_size \in 1..MaxDp
      /\ config.max_pp_batch_num \in 1..MaxPp
  BY DEF TypeOK, Configs
<1>2. Ranks \subseteq 1..MaxDp /\ Batches \subseteq 1..MaxPp
  BY <1>1, BatchSchedulerAssumption DEF Ranks, Batches
<1>3. /\ ActiveSlots \subseteq Slots
      /\ \A i \in Ranks, b \in Batches : <<i, b>> \in ActiveSlots
  BY <1>2 DEF ActiveSlots, Slots
<1>4. ASSUME NEW s \in ActiveSlots
      PROVE  s[1] \in Ranks /\ s[2] \in Batches /\ s = <<s[1], s[2]>>
  <2> HIDE DEF Ranks, Batches
  <2> QED BY DEF ActiveSlots
<1> QED BY <1>2, <1>3, <1>4

\* The types of the queues of a BatchState.
LEMMA QueueTypes ==
  ASSUME TypeOK
  PROVE  /\ waiting_queue \in [Slots -> SUBSET Requests]
         /\ decoding_queue \in [Slots -> SUBSET Requests]
         /\ running_reqs \in [Slots -> SUBSET Requests]
         /\ async_recomputed_reqs \in [Slots -> SUBSET Requests]
         /\ live_req_ids \in [Slots -> SUBSET Requests]
         /\ dp_waiting_reqs \in [1..MaxDp -> SUBSET Requests]
BY DEF TypeOK

\* The types of a step under way.
LEMMA OutputTypes ==
  ASSUME TypeOK, NEW b \in Batches
  PROVE  /\ outputs[b] \in Seq(SUBSET Requests)
         /\ InFlight(b) \subseteq Requests
<1>1. outputs[b] \in Seq(SUBSET Requests)
  BY Actives DEF TypeOK
<1>2. \A n \in DOMAIN outputs[b] : outputs[b][n] \subseteq Requests
  BY <1>1
<1> QED BY <1>1, <1>2 DEF InFlight

\* What waits is of the requests.
LEMMA PoolTypes ==
  ASSUME TypeOK, NEW b \in Batches
  PROVE  /\ AllDpWaiting \subseteq Requests /\ ADPPool(b) \subseteq Requests
         /\ schedule.collected \subseteq Requests
<1>1. schedule.collected \subseteq Requests
  BY DEF TypeOK
<1>2. AllDpWaiting \subseteq Requests
  BY QueueTypes, Actives DEF AllDpWaiting
<1>3. UNION {waiting_queue[<<i, b>>] : i \in Ranks} \subseteq Requests
  <2>1. \A i \in Ranks : <<i, b>> \in Slots
    BY Actives
  <2> QED BY <2>1, QueueTypes
<1> QED BY <1>1, <1>2, <1>3 DEF ADPPool

\* What a rank is handed is of the requests.
LEMMA DistributedTypes ==
  ASSUME NEW pool \in SUBSET Requests, NEW rank
  PROVE  Distributed(pool, rank) \in [1..MaxDp -> SUBSET Requests]
BY DEF Distributed

\* TypeOK, one conjunct for each part of the state.
RequestsTyped ==
  /\ status \in [Requests -> {"new", "refused", "accepted", "finished"}]
  /\ stopped \subseteq Requests
  /\ steps_left \in [Requests -> 0..Steps]
  /\ kv_cached \subseteq Requests
  /\ pressure \in 0..MaxPressure
  /\ resources \subseteq Requests
QueuesTyped ==
  /\ waiting_reqs \subseteq Requests
  /\ dp_waiting_reqs \in [1..MaxDp -> SUBSET Requests]
  /\ waiting_queue \in [Slots -> SUBSET Requests]
  /\ decoding_queue \in [Slots -> SUBSET Requests]
  /\ running_reqs \in [Slots -> SUBSET Requests]
  /\ async_recomputed_reqs \in [Slots -> SUBSET Requests]
  /\ live_req_ids \in [Slots -> SUBSET Requests]
LoopsTyped ==
  /\ config \in Configs
  /\ loop \in [1..MaxPp -> {"wait", "schedule", "launch"}]
  /\ schedule \in [batch : 0..MaxPp, at : {"none", "balance", "strategies"},
                   collected : SUBSET Requests]
  /\ outputs \in [1..MaxPp -> Seq(SUBSET Requests)]
RoundsTyped ==
  /\ current_qps \in {"low", "high"}
  /\ elapsed \in BOOLEAN
  /\ adp_balance_waiting_iters \in 0..max_waiting_steps
  /\ held \in [Requests -> Nat]

\* TypeOK gives its parts.
LEMMA TypeParts ==
  ASSUME TypeOK
  PROVE  RequestsTyped /\ QueuesTyped /\ LoopsTyped /\ RoundsTyped
BY DEF TypeOK, RequestsTyped, QueuesTyped, LoopsTyped, RoundsTyped

\* The parts give TypeOK.
LEMMA PartsType ==
  ASSUME RequestsTyped, QueuesTyped, LoopsTyped, RoundsTyped
  PROVE  TypeOK
<1>1. \A q \in {waiting_queue, decoding_queue, running_reqs,
                 async_recomputed_reqs, live_req_ids} :
        q \in [Slots -> SUBSET Requests]
  BY DEF QueuesTyped
<1> QED BY <1>1 DEF TypeOK, RequestsTyped, QueuesTyped, LoopsTyped, RoundsTyped

\* The parts after a step give TypeOK after it.
LEMMA PartsTypeNext ==
  ASSUME RequestsTyped', QueuesTyped', LoopsTyped', RoundsTyped'
  PROVE  TypeOK'
<1>1. \A q \in {waiting_queue', decoding_queue', running_reqs',
                 async_recomputed_reqs', live_req_ids'} :
        q \in [Slots -> SUBSET Requests]
  BY DEF QueuesTyped
<1> QED BY <1>1 DEF TypeOK, RequestsTyped, QueuesTyped, LoopsTyped, RoundsTyped

\* The types hold at start-up.
LEMMA TypeInit == Init => TypeOK
<1> SUFFICES ASSUME Init PROVE TypeOK
  OBVIOUS
<1>1. EmptyQueues \in [Slots -> SUBSET Requests]
  BY DEF EmptyQueues
<1>2. NoSchedule \in [batch : 0..MaxPp, at : {"none", "balance", "strategies"},
                      collected : SUBSET Requests]
  BY BatchSchedulerAssumption DEF NoSchedule
<1>3. <<>> \in Seq(SUBSET Requests)
  OBVIOUS
<1>4. RequestsTyped
  BY BatchSchedulerAssumption DEF Init, RequestsTyped
<1>5. QueuesTyped
  BY <1>1 DEF Init, QueuesTyped
<1>6. LoopsTyped
  BY <1>2, <1>3 DEF Init, LoopsTyped
<1>7. RoundsTyped
  <2>1. 0 \in 0..max_waiting_steps /\ 0 \in Nat
    BY BatchSchedulerAssumption
  <2>2. [r \in Requests |-> 0] \in [Requests -> Nat]
    OBVIOUS
  <2>3. elapsed \in BOOLEAN
    BY DEF Init
  <2> QED BY <2>1, <2>2, <2>3 DEF Init, RoundsTyped
<1> QED BY <1>4, <1>5, <1>6, <1>7, PartsType

\* The clients.
LEMMA TypeClients ==
  ASSUME TypeOK,
         \/ \E G \in Groups : AddInferRequest(G)
         \/ \E r \in Requests : StopRequest(r)
         \/ MaxWaitingTimePasses
  PROVE  TypeOK'
<1>0. RequestsTyped /\ QueuesTyped /\ LoopsTyped /\ RoundsTyped
  BY TypeParts
<1> USE <1>0, PartsTypeNext
<1>1. ASSUME NEW G \in Groups, AddInferRequest(G) PROVE TypeOK'
  <2>1. G \subseteq Requests
    BY BatchSchedulerAssumption
  <2>2. /\ UNCHANGED <<config, stopped, steps_left, kv_cached, pressure,
                       dp_waiting_reqs, waiting_queue, decoding_queue,
                       running_reqs, async_recomputed_reqs, loop, schedule,
                       live_req_ids, outputs, resources, elapsed,
                       adp_balance_waiting_iters, held>>
        /\ current_qps' \in {"low", "high"} \/ current_qps' = current_qps
        /\ waiting_reqs' = waiting_reqs \/ waiting_reqs' = waiting_reqs \cup G
        /\ \/ status' = [r \in Requests |-> IF r \in G THEN "refused" ELSE status[r]]
           \/ status' = [r \in Requests |-> IF r \in G THEN "accepted" ELSE status[r]]
    BY <1>1 DEF AddInferRequest, batch_states, adp
  <2>3. status' \in [Requests -> {"new", "refused", "accepted", "finished"}]
    BY <2>2 DEF RequestsTyped
  <2>4. RequestsTyped'
    BY <2>2, <2>3 DEF RequestsTyped
  <2>5. QueuesTyped'
    BY <2>1, <2>2 DEF QueuesTyped
  <2>6. LoopsTyped'
    BY <2>2 DEF LoopsTyped
  <2>7. RoundsTyped'
    BY <2>2 DEF RoundsTyped
  <2> QED BY <2>4, <2>5, <2>6, <2>7
<1>2. ASSUME NEW r \in Requests, StopRequest(r) PROVE TypeOK'
  <2>1. RequestsTyped'
    BY <1>2 DEF StopRequest, RequestsTyped
  <2>2. UNCHANGED <<queues, config, loop, schedule, live_req_ids, outputs,
                    current_qps, adp>>
    BY <1>2 DEF StopRequest
  <2>3. QueuesTyped' /\ LoopsTyped' /\ RoundsTyped'
    BY <2>2 DEF queues, batch_states, adp, QueuesTyped, LoopsTyped, RoundsTyped
  <2> QED BY <2>1, <2>3
<1>3. CASE MaxWaitingTimePasses
  <2>1. UNCHANGED <<requests, queues, config, loop, schedule, live_req_ids,
                    outputs, resources, current_qps, adp_balance_waiting_iters,
                    held>> /\ elapsed' = TRUE
    BY <1>3 DEF MaxWaitingTimePasses
  <2>2. RequestsTyped' /\ QueuesTyped' /\ LoopsTyped' /\ RoundsTyped'
    BY <2>1 DEF requests, queues, batch_states, RequestsTyped, QueuesTyped,
                LoopsTyped, RoundsTyped
  <2> QED BY <2>2
<1> QED BY <1>1, <1>2, <1>3

\* The parts of Schedule.
LEMMA TypeSchedule ==
  ASSUME TypeOK, HeldInv', NEW b \in Batches,
         \/ WaitUntilHaveReqs(b) \/ CollectWaitingReqs(b)
         \/ BalanceWaitingReqs(b) \/ BalanceADPRequests(b)
  PROVE  TypeOK'
<1>0. RequestsTyped /\ QueuesTyped /\ LoopsTyped /\ RoundsTyped
  BY TypeParts
<1> USE <1>0, PartsTypeNext
<1>1. b \in 1..MaxPp /\ b \in 0..MaxPp
  BY Actives, BatchSchedulerAssumption
<1>2. CASE WaitUntilHaveReqs(b)
  <2>1. loop' = [loop EXCEPT ![b] = "schedule"]
        /\ UNCHANGED <<config, requests, queues, schedule, live_req_ids, outputs,
                       resources, current_qps, adp>>
    BY <1>2 DEF WaitUntilHaveReqs
  <2>2. RequestsTyped' /\ QueuesTyped' /\ LoopsTyped' /\ RoundsTyped'
    BY <1>1, <2>1 DEF requests, queues, batch_states, adp, RequestsTyped,
                      QueuesTyped, LoopsTyped, RoundsTyped
  <2> QED BY <2>2
<1>3. CASE CollectWaitingReqs(b)
  <2>1. /\ schedule' = [batch |-> b, at |-> "balance", collected |-> waiting_reqs]
        /\ waiting_reqs' = {}
        /\ UNCHANGED <<config, requests, dp_waiting_reqs, batch_states, loop,
                       live_req_ids, outputs, resources, current_qps, adp>>
    BY <1>3 DEF CollectWaitingReqs
  <2>2. RequestsTyped' /\ QueuesTyped' /\ RoundsTyped'
    BY <2>1 DEF requests, batch_states, adp, RequestsTyped, QueuesTyped, RoundsTyped
  <2>3. LoopsTyped'
    BY <1>1, <2>1 DEF LoopsTyped, QueuesTyped
  <2> QED BY <2>2, <2>3
<1>4. ASSUME Balanced(b), UNCHANGED <<config, loop, outputs>>
      PROVE  LoopsTyped'
  BY <1>1, <1>4 DEF LoopsTyped, Balanced
<1>5. CASE BalanceWaitingReqs(b)
  <2>1. /\ Balanced(b)
        /\ UNCHANGED <<config, requests, waiting_reqs, batch_states, loop,
                       live_req_ids, outputs, resources, current_qps, adp>>
        /\ \/ dp_waiting_reqs' = dp_waiting_reqs
           \/ \E rank :
                dp_waiting_reqs'
                  = Distributed(schedule.collected \cup AllDpWaiting, rank)
    BY <1>5 DEF BalanceWaitingReqs
  <2>2. dp_waiting_reqs' \in [1..MaxDp -> SUBSET Requests]
    <3>1. schedule.collected \cup AllDpWaiting \in SUBSET Requests
      BY PoolTypes
    <3>2. \A rank : Distributed(schedule.collected \cup AllDpWaiting, rank)
                     \in [1..MaxDp -> SUBSET Requests]
      BY <3>1, DistributedTypes
    <3> QED BY <2>1, <3>2, QueueTypes
  <2>3. RequestsTyped' /\ QueuesTyped' /\ RoundsTyped'
    BY <2>1, <2>2 DEF requests, batch_states, adp, RequestsTyped, QueuesTyped,
                      RoundsTyped
  <2> QED BY <1>4, <2>1, <2>3
<1>6. CASE BalanceADPRequests(b)
  <2>1. /\ Balanced(b)
        /\ waiting_queue' = EmptiedWaitingQueues(b)
        /\ UNCHANGED <<config, requests, decoding_queue, running_reqs,
                       async_recomputed_reqs, loop, live_req_ids, outputs,
                       resources, current_qps>>
        /\ \/ /\ \E rank : dp_waiting_reqs' = Distributed(ADPPool(b), rank)
              /\ UNCHANGED <<waiting_reqs, elapsed>>
           \/ /\ waiting_reqs' = waiting_reqs \cup ADPPool(b)
              /\ dp_waiting_reqs' = [i \in 1..MaxDp |-> {}]
              /\ elapsed' = (elapsed /\ adp_balance_waiting_iters > 0)
    BY <1>6 DEF BalanceADPRequests
  <2>2. dp_waiting_reqs' \in [1..MaxDp -> SUBSET Requests]
    BY <2>1, PoolTypes, DistributedTypes
  <2>3. waiting_reqs' \subseteq Requests
    BY <2>1, PoolTypes DEF QueuesTyped
  <2>4. EmptiedWaitingQueues(b) \in [Slots -> SUBSET Requests]
    BY QueueTypes DEF EmptiedWaitingQueues
  <2>5. QueuesTyped'
    BY <2>1, <2>2, <2>3, <2>4 DEF QueuesTyped
  <2>6. elapsed' \in BOOLEAN
    BY <2>1 DEF RoundsTyped
  <2>7. RequestsTyped'
    BY <2>1 DEF requests, RequestsTyped
  <2>8. RoundsTyped'
    BY <2>1, <2>6 DEF RoundsTyped, HeldInv, RoundTypes
  <2> QED BY <1>4, <2>1, <2>5, <2>7, <2>8
<1> QED BY <1>2, <1>3, <1>5, <1>6

\* What is left of a queue is of the requests.
LEMMA WithoutTypes ==
  ASSUME NEW queue \in [Slots -> SUBSET Requests], NEW S
  PROVE  Without(queue, S) \in [Slots -> SUBSET Requests]
BY DEF Without

\* The requests that a Schedule for batch b moves to the waiting queues, and
\* those that leave for good.
Merged(b) ==
  [s \in Slots |-> IF s[2] = b THEN waiting_queue[s] \cup dp_waiting_reqs[s[1]]
                   ELSE waiting_queue[s]]
Gone(b) ==
  (InBatch(Merged(b), b) \cup InBatch(decoding_queue, b)
     \cup InBatch(running_reqs, b)) \cap (stopped \ InFlight(b))

\* The queues a strategy leaves behind hold requests.
LEMMA StrategiesTypes ==
  ASSUME QueuesTyped, RequestsTyped, NEW b, NEW A, NEW R, NEW Y,
         Strategies(b, A, R, Y)
  PROVE  /\ waiting_queue' \in [Slots -> SUBSET Requests]
         /\ decoding_queue' \in [Slots -> SUBSET Requests]
         /\ running_reqs' \in [Slots -> SUBSET Requests]
         /\ async_recomputed_reqs' \in [Slots -> SUBSET Requests]
         /\ status' \in [Requests -> {"new", "refused", "accepted", "finished"}]
         /\ kv_cached' \subseteq Requests /\ resources' \subseteq Requests
<1> DEFINE Here(s, S) == IF s[2] = b THEN S ELSE {}
<1>1. \A s \in Slots : Merged(b)[s] \subseteq Requests
  <2>1. \A s \in Slots : s[1] \in 1..MaxDp
    BY DEF Slots
  <2> QED BY <2>1 DEF Merged, QueuesTyped
<1>2. /\ running_reqs' = [s \in Slots |->
           (running_reqs[s] \ Here(s, Y \cup Gone(b)))
             \cup Here(s, A \cap (Merged(b)[s] \cup decoding_queue[s]))]
      /\ waiting_queue' = [s \in Slots |->
           (Merged(b)[s] \ Here(s, A \cup Gone(b)))
             \cup Here(s, R \cap decoding_queue[s])]
      /\ decoding_queue' = [s \in Slots |->
           decoding_queue[s] \ Here(s, A \cup R \cup Gone(b))]
      /\ async_recomputed_reqs' = [s \in Slots |->
           async_recomputed_reqs[s] \cup Here(s, Y \cap running_reqs[s])]
      /\ Finish(Gone(b))
      /\ kv_cached' = kv_cached \ (R \cup Gone(b))
      /\ resources' = resources \ (R \cup Gone(b))
  BY Zenon DEF Strategies, Merged, Gone
<1>3. running_reqs' \in [Slots -> SUBSET Requests]
  BY <1>1, <1>2 DEF QueuesTyped
<1>4. waiting_queue' \in [Slots -> SUBSET Requests]
  BY <1>1, <1>2 DEF QueuesTyped
<1>5. decoding_queue' \in [Slots -> SUBSET Requests]
  BY <1>2 DEF QueuesTyped
<1>6. async_recomputed_reqs' \in [Slots -> SUBSET Requests]
  BY <1>2 DEF QueuesTyped
<1>7. status' \in [Requests -> {"new", "refused", "accepted", "finished"}]
  BY <1>2 DEF Finish, RequestsTyped
<1> QED BY <1>2, <1>3, <1>4, <1>5, <1>6, <1>7 DEF RequestsTyped

\* What a Schedule hands to the strategies of its ranks.
StrategyOf(b, A, R, Y) ==
  /\ Strategies(b, A, R, Y)
  /\ A \subseteq Requests \ stopped
  /\ R \subseteq InBatch(decoding_queue, b) \ stopped
  /\ Y \subseteq InBatch(running_reqs, b) \ stopped
  /\ A \cap R = {}

\* Requests admitted are not stopped, those recomputed are between two steps,
\* and those taken out have a step under way.
LEMMA StrategiesChosen ==
  ASSUME TypeOK, NEW b \in Batches, ScheduleStrategies(b)
  PROVE  \E A, R, Y : StrategyOf(b, A, R, Y)
<1> DEFINE decoding == InBatch(decoding_queue, b) \ stopped
           available == (decoding \cup AllDpWaiting \cup InBatch(waiting_queue, b))
                          \ stopped
           underway == InBatch(running_reqs, b) \cap (InFlight(b) \ stopped)
<1>1. available \subseteq Requests \ stopped
  <2>1. \A i \in Ranks : <<i, b>> \in Slots
    BY Actives
  <2>2. /\ InBatch(decoding_queue, b) \subseteq Requests
        /\ InBatch(waiting_queue, b) \subseteq Requests
    BY <2>1, QueueTypes DEF InBatch
  <2> QED BY <2>2, PoolTypes
<1>2. \/ Strategies(b, available, {}, {})
      \/ \E r \in available \cup underway :
         \E recomputed \in {{}, {r} \cap decoding} :
           Strategies(b, available \ {r}, recomputed, {r} \cap underway)
  BY Zenon DEF ScheduleStrategies
<1> HIDE DEF available
<1>3. CASE Strategies(b, available, {}, {})
  BY <1>1, <1>3 DEF StrategyOf
<1>4. ASSUME NEW r, NEW R \in {{}, {r} \cap decoding},
             Strategies(b, available \ {r}, R, {r} \cap underway)
      PROVE  StrategyOf(b, available \ {r}, R, {r} \cap underway)
  <2>1. available \ {r} \subseteq Requests \ stopped
    BY <1>1
  <2>2. R \subseteq {r} /\ R \subseteq decoding
    BY <1>4
  <2>3. {r} \cap underway \subseteq InBatch(running_reqs, b) \ stopped
    OBVIOUS
  <2>4. (available \ {r}) \cap R = {}
    BY <2>2
  <2> QED BY <1>4, <2>1, <2>2, <2>3, <2>4 DEF StrategyOf
<1> QED BY <1>2, <1>3, <1>4

\* The strategies move requests between the queues of their batch.
LEMMA TypeStrategies ==
  ASSUME TypeOK, NEW b \in Batches, ScheduleStrategies(b)
  PROVE  TypeOK'
<1>1. RequestsTyped /\ QueuesTyped /\ LoopsTyped /\ RoundsTyped
  BY TypeParts
<1>2. PICK A, R, Y : Strategies(b, A, R, Y)
  BY StrategiesChosen DEF StrategyOf
<1>3. /\ pressure' = pressure \/ (pressure < MaxPressure /\ pressure' = pressure + 1)
      /\ dp_waiting_reqs' = [i \in 1..MaxDp |-> {}]
      /\ live_req_ids' = [s \in Slots |-> IF s[2] = b
           THEN FillLiveReqIds(running_reqs'[s], decoding_queue'[s],
                               waiting_queue'[s], async_recomputed_reqs'[s])
           ELSE live_req_ids[s]]
      /\ loop' = [loop EXCEPT ![b] = "launch"]
      /\ schedule' = NoSchedule
      /\ UNCHANGED <<config, stopped, steps_left, waiting_reqs, outputs,
                     current_qps, adp>>
  BY DEF ScheduleStrategies
<1>4. /\ waiting_queue' \in [Slots -> SUBSET Requests]
      /\ decoding_queue' \in [Slots -> SUBSET Requests]
      /\ running_reqs' \in [Slots -> SUBSET Requests]
      /\ async_recomputed_reqs' \in [Slots -> SUBSET Requests]
      /\ status' \in [Requests -> {"new", "refused", "accepted", "finished"}]
      /\ kv_cached' \subseteq Requests /\ resources' \subseteq Requests
  BY <1>1, <1>2, StrategiesTypes
<1>5. pressure' \in 0..MaxPressure
  BY <1>1, <1>3, BatchSchedulerAssumption DEF RequestsTyped
<1>6. live_req_ids' \in [Slots -> SUBSET Requests]
  BY <1>1, <1>3, <1>4 DEF FillLiveReqIds, QueuesTyped
<1>7. b \in 1..MaxPp /\ 0 \in 0..MaxPp
  BY Actives, BatchSchedulerAssumption
<1>8. NoSchedule \in [batch : 0..MaxPp, at : {"none", "balance", "strategies"},
                      collected : SUBSET Requests]
  BY <1>7 DEF NoSchedule
<1>9. LoopsTyped'
  BY <1>1, <1>3, <1>7, <1>8 DEF LoopsTyped
<1>10. RequestsTyped'
  BY <1>1, <1>3, <1>4, <1>5 DEF RequestsTyped
<1>11. QueuesTyped'
  BY <1>1, <1>3, <1>4, <1>6 DEF QueuesTyped
<1>12. RoundsTyped'
  BY <1>1, <1>3 DEF RoundsTyped, adp
<1> QED BY <1>9, <1>10, <1>11, <1>12, PartsTypeNext

\* A launch puts the running requests under way.
LEMMA TypeLaunch ==
  ASSUME TypeOK, NEW b \in Batches, TryToLaunchPlannedScheduleOutput(b)
  PROVE  TypeOK'
<1>1. RequestsTyped /\ QueuesTyped /\ LoopsTyped /\ RoundsTyped
  BY TypeParts
<1>2. InBatch(running_reqs, b) \subseteq Requests
  <2>1. \A i \in Ranks : <<i, b>> \in Slots
    BY Actives
  <2> QED BY <2>1, QueueTypes DEF InBatch
<1>3. Launching(b) \subseteq Requests
  BY <1>2 DEF Launching
<1>4. /\ running_reqs' = Without(running_reqs, StoppedReqs(b))
      /\ Finish(StoppedReqs(b))
      /\ kv_cached' = kv_cached \ StoppedReqs(b)
      /\ loop' = [loop EXCEPT ![b] = "wait"] \/ loop' = loop
      /\ UNCHANGED <<config, stopped, steps_left, pressure, waiting_reqs,
                     dp_waiting_reqs, waiting_queue, decoding_queue,
                     async_recomputed_reqs, schedule, live_req_ids, current_qps,
                     adp>>
      /\ \/ /\ outputs' = [outputs EXCEPT ![b] = Append(@, Launching(b))]
            /\ resources' = AfterProcess(b) \ StoppedReqs(b)
         \/ /\ resources' = resources \ StoppedReqs(b)
            /\ outputs' = outputs
  BY DEF TryToLaunchPlannedScheduleOutput
<1>5. running_reqs' \in [Slots -> SUBSET Requests]
  BY <1>1, <1>4, WithoutTypes DEF QueuesTyped
<1>6. status' \in [Requests -> {"new", "refused", "accepted", "finished"}]
  BY <1>1, <1>4 DEF RequestsTyped, Finish
<1>7. resources' \subseteq Requests
  <2>1. AfterProcess(b) \subseteq resources \cup Launching(b)
    BY DEF AfterProcess
  <2> QED BY <1>1, <1>3, <1>4, <2>1 DEF RequestsTyped
<1>8. b \in 1..MaxPp
  BY Actives
<1>9. outputs' \in [1..MaxPp -> Seq(SUBSET Requests)]
  <2>1. outputs \in [1..MaxPp -> Seq(SUBSET Requests)]
    BY <1>1 DEF LoopsTyped
  <2>2. Append(outputs[b], Launching(b)) \in Seq(SUBSET Requests)
    BY <1>3, <1>8, <2>1
  <2> QED BY <1>4, <2>1, <2>2
<1>10. RequestsTyped'
  BY <1>1, <1>4, <1>6, <1>7 DEF RequestsTyped
<1>11. QueuesTyped'
  BY <1>1, <1>4, <1>5 DEF QueuesTyped
<1>12. LoopsTyped'
  BY <1>1, <1>4, <1>8, <1>9 DEF LoopsTyped
<1>13. RoundsTyped'
  BY <1>1, <1>4 DEF RoundsTyped, adp
<1> QED BY <1>10, <1>11, <1>12, <1>13, PartsTypeNext

\* A result that comes back.
LEMMA TypeUpdate ==
  ASSUME TypeOK, StepsRemain, NEW b \in Batches, UpdateWithGenerationResult(b)
  PROVE  TypeOK' /\ StepsRemain'
<1> DEFINE back == Head(outputs[b])
           rest == Tail(outputs[b])
           alive == back \ stopped
           ended == {r \in alive : steps_left[r] = 1}
           drained == {r \in back : \A n \in DOMAIN rest : r \notin rest[n]}
           gone == drained \cap (stopped \cup ended)
           idle == IF loop[b] = "launch" THEN {} ELSE drained \ gone
           taken == InBatch(async_recomputed_reqs, b) \cap (drained \ gone)
           In(s, S) == IF s[2] = b THEN S ELSE {}
<1>1. RequestsTyped /\ QueuesTyped /\ LoopsTyped /\ RoundsTyped
  BY TypeParts
<1>2. PICK recovered \in SUBSET taken :
        /\ outputs' = [outputs EXCEPT ![b] = rest]
        /\ stopped' = stopped \cup ended
        /\ steps_left' = [r \in Requests |->
             IF r \in alive THEN steps_left[r] - 1 ELSE steps_left[r]]
        /\ running_reqs' = [s \in Slots |-> running_reqs[s] \ In(s, idle \cup gone)]
        /\ decoding_queue' = [s \in Slots |-> decoding_queue[s]
             \cup In(s, (running_reqs[s] \cap idle)
                          \cup (async_recomputed_reqs[s] \cap recovered))]
        /\ waiting_queue' = [s \in Slots |-> waiting_queue[s]
             \cup In(s, async_recomputed_reqs[s] \cap (taken \ recovered))]
        /\ async_recomputed_reqs' =
             [s \in Slots |-> async_recomputed_reqs[s] \ In(s, taken \cup gone)]
        /\ Finish(gone)
        /\ kv_cached' = (kv_cached \cup alive) \ (gone \cup (taken \ recovered))
        /\ resources' = resources \ (gone \cup (taken \ recovered))
  BY Zenon DEF UpdateWithGenerationResult
<1>3. /\ UNCHANGED <<config, pressure, waiting_reqs, dp_waiting_reqs, loop,
                     schedule, live_req_ids, current_qps, adp>>
      /\ outputs[b] # <<>>
  BY DEF UpdateWithGenerationResult
<1>4. outputs[b] \in Seq(SUBSET Requests) /\ b \in 1..MaxPp
  BY OutputTypes, Actives
<1>5. back \subseteq Requests /\ rest \in Seq(SUBSET Requests)
  BY <1>3, <1>4
<1>6. alive \subseteq Requests /\ ended \subseteq Requests
  BY <1>5
<1>7. \A r \in Requests : r \in alive => r \notin stopped
  OBVIOUS
<1>8. \A r \in Requests : r \in ended <=> r \in alive /\ steps_left[r] = 1
  BY <1>5
<1> HIDE DEF back, rest, alive, ended, drained, gone, idle, taken
<1>9. outputs' \in [1..MaxPp -> Seq(SUBSET Requests)]
  <2>1. outputs \in [1..MaxPp -> Seq(SUBSET Requests)]
    BY <1>1 DEF LoopsTyped
  <2> QED BY <1>2, <1>4, <1>5, <2>1
<1>10. steps_left' \in [Requests -> 0..Steps]
  <2>1. ASSUME NEW r \in Requests
        PROVE  (IF r \in alive THEN steps_left[r] - 1 ELSE steps_left[r]) \in 0..Steps
    <3>1. steps_left[r] \in 0..Steps /\ Steps \in Nat
      BY <1>1, BatchSchedulerAssumption DEF RequestsTyped
    <3>2. r \in alive => steps_left[r] >= 1
      BY <1>7 DEF StepsRemain
    <3> QED BY <3>1, <3>2
  <2> QED BY <1>2, <2>1
<1>11. StepsRemain'
  <2>1. ASSUME NEW r \in Requests, r \notin stopped' PROVE steps_left'[r] >= 1
    <3>1. steps_left[r] \in 0..Steps /\ Steps \in Nat /\ steps_left[r] >= 1
      BY <1>1, <1>2, <2>1, BatchSchedulerAssumption DEF RequestsTyped, StepsRemain
    <3>2. r \in alive => steps_left[r] # 1
      BY <1>2, <1>8, <2>1
    <3>3. steps_left'[r] = IF r \in alive THEN steps_left[r] - 1 ELSE steps_left[r]
      BY <1>2
    <3> QED BY <3>1, <3>2, <3>3
  <2> QED BY <2>1 DEF StepsRemain
<1>12. /\ status' \in [Requests -> {"new", "refused", "accepted", "finished"}]
       /\ stopped' \subseteq Requests
       /\ kv_cached' \subseteq Requests /\ resources' \subseteq Requests
  BY <1>1, <1>2, <1>6 DEF RequestsTyped, Finish
<1>13. RequestsTyped'
  BY <1>1, <1>3, <1>10, <1>12 DEF RequestsTyped
<1>14. QueuesTyped'
  <2>1. running_reqs' \in [Slots -> SUBSET Requests]
    BY <1>1, <1>2 DEF QueuesTyped
  <2>2. decoding_queue' \in [Slots -> SUBSET Requests]
    BY <1>1, <1>2 DEF QueuesTyped
  <2>3. waiting_queue' \in [Slots -> SUBSET Requests]
    BY <1>1, <1>2 DEF QueuesTyped
  <2>4. async_recomputed_reqs' \in [Slots -> SUBSET Requests]
    BY <1>1, <1>2 DEF QueuesTyped
  <2> QED BY <1>1, <1>3, <2>1, <2>2, <2>3, <2>4 DEF QueuesTyped
<1>15. LoopsTyped'
  BY <1>1, <1>3, <1>9 DEF LoopsTyped
<1>16. RoundsTyped'
  BY <1>1, <1>3 DEF RoundsTyped, adp
<1> QED BY <1>11, <1>13, <1>14, <1>15, <1>16, PartsTypeNext

\* The types, and that a request that goes on has a step left.
LEMMA TypeStep ==
  ASSUME TypeOK, StepsRemain, HeldInv', [Next]_vars
  PROVE  TypeOK' /\ StepsRemain'
<1>1. ASSUME UNCHANGED <<stopped, steps_left>> PROVE StepsRemain'
  BY <1>1 DEF StepsRemain
<1>2. CASE \/ \E G \in Groups : AddInferRequest(G)
           \/ \E r \in Requests : StopRequest(r)
           \/ MaxWaitingTimePasses
  <2>1. steps_left' = steps_left /\ stopped \subseteq stopped'
    BY <1>2 DEF AddInferRequest, StopRequest, MaxWaitingTimePasses, requests
  <2>2. StepsRemain'
    BY <2>1 DEF StepsRemain
  <2> QED BY <1>2, <2>2, TypeClients
<1>3. ASSUME NEW b \in Batches, LoopStep(b)
      PROVE  TypeOK' /\ StepsRemain'
  <2>1. UNCHANGED <<stopped, steps_left>>
    BY <1>3 DEF LoopStep, WaitUntilHaveReqs, CollectWaitingReqs, BalanceWaitingReqs,
                BalanceADPRequests, ScheduleStrategies,
                TryToLaunchPlannedScheduleOutput, requests
  <2>2. TypeOK'
    BY <1>3, TypeSchedule, TypeStrategies, TypeLaunch DEF LoopStep
  <2> QED BY <1>1, <2>1, <2>2
<1>4. ASSUME NEW b \in Batches, UpdateWithGenerationResult(b)
      PROVE  TypeOK' /\ StepsRemain'
  BY <1>4, TypeUpdate
<1>5. CASE UNCHANGED vars
  <2>1. UNCHANGED <<stopped, steps_left>>
    BY <1>5 DEF vars, requests
  <2>2. RequestsTyped /\ QueuesTyped /\ LoopsTyped /\ RoundsTyped
    BY TypeParts
  <2>3. RequestsTyped' /\ QueuesTyped' /\ LoopsTyped' /\ RoundsTyped'
    BY <1>5, <2>2 DEF vars, requests, queues, batch_states, adp, RequestsTyped,
                      QueuesTyped, LoopsTyped, RoundsTyped
  <2> QED BY <1>1, <2>1, <2>3, PartsTypeNext
<1> QED BY <1>2, <1>3, <1>4, <1>5 DEF Next

-----------------------------------------------------------------------------
(***************************************************************************)
(* Where a request goes.                                                   *)
(***************************************************************************)

\* What is in a queue of a batch.
LEMMA InBatchIs ==
  ASSUME NEW queue, NEW b, NEW r
  PROVE  r \in InBatch(queue, b) <=> \E i \in Ranks : r \in queue[<<i, b>>]
BY DEF InBatch

\* A request in one slot is in the batch of that slot.
LEMMA InBatchAt ==
  ASSUME TypeOK, NEW b \in Batches, NEW s \in ActiveSlots, NEW r, NEW queue,
         OnlyAt(queue, s, r)
  PROVE  r \in InBatch(queue, b) <=> s[2] = b
<1>1. /\ \A i \in Ranks : <<i, b>> \in Slots
      /\ s[1] \in Ranks /\ s[2] \in Batches /\ s = <<s[1], s[2]>> /\ s \in Slots
  BY Actives
<1>2. \A i \in Ranks : r \in queue[<<i, b>>] <=> <<i, b>> = s
  BY <1>1 DEF OnlyAt
<1>3. (\E i \in Ranks : <<i, b>> = s) <=> s[2] = b
  BY <1>1
<1> QED BY <1>2, <1>3, InBatchIs

\* A request in no slot is in no batch.
LEMMA NotInBatch ==
  ASSUME TypeOK, NEW b \in Batches, NEW r, NEW queue, NotIn(queue, r)
  PROVE  r \notin InBatch(queue, b)
<1>1. \A i \in Ranks : <<i, b>> \in Slots
  BY Actives
<1> QED BY <1>1, InBatchIs DEF NotIn

\* The places exclude each other.
LEMMA OnePlaceOnly ==
  ASSUME TypeOK, NEW r, Nowhere(r)
  PROVE  ~InOnePlace(r)
<1>1. ActiveSlots \subseteq Slots /\ Ranks \subseteq 1..MaxDp
  BY Actives
<1>2. ~OnlyArrived(r) /\ ~OnlyCollected(r)
  BY DEF Nowhere, OnlyArrived, OnlyCollected
<1>3. ~OnlyDp(r)
  BY <1>1 DEF Nowhere, OnlyDp, NotInDp
<1>4. ASSUME NEW s \in ActiveSlots
      PROVE  /\ ~OnlyWaiting(r, s) /\ ~OnlyDecoding(r, s)
             /\ ~OnlyRunning(r, s) /\ ~OnlyAsync(r, s)
  BY <1>1 DEF Nowhere, NotInBatchStates, OnlyWaiting, OnlyDecoding, OnlyRunning,
              OnlyAsync, OnlyAt, NotIn
<1> QED BY <1>2, <1>3, <1>4 DEF InOnePlace

\* A request with a step under way is in the batch or was taken out of it, so
\* it is in none of the queues that wait.
LEMMA FlightPlaces ==
  ASSUME PlacesInv, NEW r, NEW b \in Batches, r \in InFlight(b)
  PROVE  /\ r \in Requests
         /\ NotIn(waiting_queue, r) /\ NotIn(decoding_queue, r) /\ OutOfPool(r)
<1>1. r \in Requests
  BY OutputTypes DEF PlacesInv
<1>2. PICK i \in Ranks : OnlyRunning(r, <<i, b>>) \/ OnlyAsync(r, <<i, b>>)
  BY DEF PlacesInv, FlightInv
<1> QED BY <1>1, <1>2 DEF OnlyRunning, OnlyAsync

\* What a step does to the places: the requests of S leave for good, having been
\* stopped; the others stay in one place, or nowhere.
Moves(S) ==
  \A r \in Requests :
    /\ r \in S => r \in stopped' /\ Nowhere(r)'
    /\ r \notin S /\ InOnePlace(r) => InOnePlace(r)'
    /\ Nowhere(r) => Nowhere(r)'

\* Such a step keeps every request in one place.
LEMMA MovesKeepPlaces ==
  ASSUME PlaceInv, NEW S, Moves(S), stopped \subseteq stopped',
         \A r \in Requests : status'[r] = IF r \in S THEN "finished" ELSE status[r]
  PROVE  PlaceInv'
<1> SUFFICES ASSUME NEW r \in Requests
             PROVE  /\ (InOnePlace(r) \/ Nowhere(r))'
                    /\ (status[r] = "accepted" /\ r \notin stopped => InOnePlace(r))'
                    /\ (status[r] # "accepted" => Nowhere(r))'
  BY DEF PlaceInv
<1>1. /\ InOnePlace(r) \/ Nowhere(r)
      /\ status[r] = "accepted" /\ r \notin stopped => InOnePlace(r)
      /\ status[r] # "accepted" => Nowhere(r)
  BY DEF PlaceInv
<1>2. /\ r \in S => r \in stopped' /\ Nowhere(r)'
      /\ r \notin S /\ InOnePlace(r) => InOnePlace(r)'
      /\ Nowhere(r) => Nowhere(r)'
  BY DEF Moves
<1>3. status'[r] = IF r \in S THEN "finished" ELSE status[r]
  OBVIOUS
<1> QED BY <1>1, <1>2, <1>3

\* What holds requests.
places == <<config, queues, schedule.collected>>

\* Nothing moves.
LEMMA PlacesFrame ==
  ASSUME UNCHANGED places
  PROVE  /\ \A r : /\ InOnePlace(r)' <=> InOnePlace(r)
                   /\ Nowhere(r)' <=> Nowhere(r)
         /\ \A r, s : /\ OnlyDecoding(r, s)' <=> OnlyDecoding(r, s)
                      /\ OnlyRunning(r, s)' <=> OnlyRunning(r, s)
                      /\ OnlyAsync(r, s)' <=> OnlyAsync(r, s)
         /\ ActiveSlots' = ActiveSlots /\ Ranks' = Ranks /\ Batches' = Batches
<1>1. UNCHANGED <<config, waiting_reqs, dp_waiting_reqs, waiting_queue,
                  decoding_queue, running_reqs, async_recomputed_reqs,
                  schedule.collected>>
  BY DEF places, queues, batch_states
<1>2. Ranks' = Ranks /\ Batches' = Batches
  BY <1>1 DEF Ranks, Batches
<1>3. ActiveSlots' = ActiveSlots
  BY <1>2 DEF ActiveSlots
<1>4. \A r : Nowhere(r)' <=> Nowhere(r)
  BY <1>1 DEF Nowhere, NotInBatchStates, NotInDp, NotIn
<1>5. \A r, s : /\ OnlyWaiting(r, s)' <=> OnlyWaiting(r, s)
                /\ OnlyDecoding(r, s)' <=> OnlyDecoding(r, s)
                /\ OnlyRunning(r, s)' <=> OnlyRunning(r, s)
                /\ OnlyAsync(r, s)' <=> OnlyAsync(r, s)
  BY <1>1 DEF OnlyWaiting, OnlyDecoding, OnlyRunning, OnlyAsync, OnlyAt, NotIn,
              OutOfPool, NotInDp
<1>6. \A r : /\ OnlyArrived(r)' <=> OnlyArrived(r)
             /\ OnlyCollected(r)' <=> OnlyCollected(r)
             /\ OnlyDp(r)' <=> OnlyDp(r)
  BY <1>1, <1>2 DEF OnlyArrived, OnlyCollected, OnlyDp, NotInBatchStates, NotInDp, NotIn
<1>7. \A r : InOnePlace(r)' <=> InOnePlace(r)
  BY <1>3, <1>5, <1>6 DEF InOnePlace
<1> QED BY <1>2, <1>3, <1>4, <1>5, <1>7

\* Nothing moves and no step is launched or comes back.
LEMMA FlightFrame ==
  ASSUME FlightInv, UNCHANGED places, outputs' = outputs
  PROVE  FlightInv'
<1>1. /\ \A r, s : /\ OnlyRunning(r, s)' <=> OnlyRunning(r, s)
                   /\ OnlyAsync(r, s)' <=> OnlyAsync(r, s)
      /\ Ranks' = Ranks /\ Batches' = Batches
  BY PlacesFrame
<1>2. \A b : InFlight(b)' = InFlight(b)
  BY DEF InFlight
<1> QED BY <1>1, <1>2 DEF FlightInv

\* PlacesInv without the types, which TypeStep keeps.
PlacesOnly == ScheduleInv /\ PlaceInv /\ FlightInv

\* A step that moves nothing.
LEMMA StillPlaces ==
  ASSUME PlacesInv, ScheduleInv', UNCHANGED places, UNCHANGED <<outputs, status>>,
         stopped \subseteq stopped'
  PROVE  PlacesOnly'
<1>2. FlightInv'
  BY FlightFrame DEF PlacesInv
<1>3. Moves({})
  BY PlacesFrame DEF Moves
<1>4. PlaceInv'
  BY <1>3, MovesKeepPlaces DEF PlacesInv
<1> QED BY <1>2, <1>4 DEF PlacesOnly

\* A group that was added arrives, or is refused as a whole.
LEMMA AddPlaces ==
  ASSUME PlacesInv, NEW G \in Groups, AddInferRequest(G)
  PROVE  PlacesOnly'
<1>1. /\ \A r \in G : status[r] = "new"
      /\ UNCHANGED <<config, stopped, dp_waiting_reqs, waiting_queue,
                     decoding_queue, running_reqs, async_recomputed_reqs,
                     schedule, outputs>>
      /\ \/ /\ status' = [r \in Requests |-> IF r \in G THEN "refused" ELSE status[r]]
            /\ waiting_reqs' = waiting_reqs
         \/ /\ status' = [r \in Requests |-> IF r \in G THEN "accepted" ELSE status[r]]
            /\ waiting_reqs' = waiting_reqs \cup G
  BY DEF AddInferRequest, batch_states
<1>2. G \subseteq Requests
  BY BatchSchedulerAssumption
<1>3. ScheduleInv'
  BY <1>1 DEF PlacesInv, ScheduleInv
<1>4. Ranks' = Ranks /\ Batches' = Batches /\ ActiveSlots' = ActiveSlots
  BY <1>1 DEF Ranks, Batches, ActiveSlots
<1>5. \A r \in G : Nowhere(r)
  BY <1>1, <1>2 DEF PlacesInv, PlaceInv
<1>6. ASSUME NEW r, r \notin G
      PROVE  /\ Nowhere(r)' <=> Nowhere(r)
             /\ OnlyArrived(r)' <=> OnlyArrived(r)
             /\ OnlyCollected(r)' <=> OnlyCollected(r)
             /\ OnlyDp(r)' <=> OnlyDp(r)
             /\ \A s : /\ OnlyWaiting(r, s)' <=> OnlyWaiting(r, s)
                       /\ OnlyDecoding(r, s)' <=> OnlyDecoding(r, s)
                       /\ OnlyRunning(r, s)' <=> OnlyRunning(r, s)
                       /\ OnlyAsync(r, s)' <=> OnlyAsync(r, s)
  <2>1. r \in waiting_reqs' <=> r \in waiting_reqs
    BY <1>1, <1>6
  <2>2. /\ NotInBatchStates(r)' <=> NotInBatchStates(r)
        /\ NotInDp(r)' <=> NotInDp(r)
        /\ OutOfPool(r)' <=> OutOfPool(r)
    BY <1>1, <2>1 DEF NotInBatchStates, NotIn, NotInDp, OutOfPool
  <2>3. \A s : /\ OnlyWaiting(r, s)' <=> OnlyWaiting(r, s)
               /\ OnlyDecoding(r, s)' <=> OnlyDecoding(r, s)
               /\ OnlyRunning(r, s)' <=> OnlyRunning(r, s)
               /\ OnlyAsync(r, s)' <=> OnlyAsync(r, s)
    BY <1>1, <2>2 DEF OnlyWaiting, OnlyDecoding, OnlyRunning, OnlyAsync, OnlyAt, NotIn
  <2> QED BY <1>1, <1>4, <2>1, <2>2, <2>3
          DEF Nowhere, OnlyArrived, OnlyCollected, OnlyDp
<1>7. \A r : r \notin G =>
        /\ Nowhere(r)' <=> Nowhere(r)
        /\ InOnePlace(r)' <=> InOnePlace(r)
  BY <1>4, <1>6 DEF InOnePlace
<1>8. FlightInv'
  <2>1. ASSUME NEW b \in Batches', NEW r \in InFlight(b)'
        PROVE  \E i \in Ranks' : (OnlyRunning(r, <<i, b>>) \/ OnlyAsync(r, <<i, b>>))'
    <3>1. InFlight(b)' = InFlight(b)
      BY <1>1 DEF InFlight
    <3>2. PICK i \in Ranks : OnlyRunning(r, <<i, b>>) \/ OnlyAsync(r, <<i, b>>)
      BY <1>4, <2>1, <3>1 DEF PlacesInv, FlightInv
    <3>3. ~Nowhere(r)
      <4>1. <<i, b>> \in Slots
        BY <1>4, <2>1, Actives DEF PlacesInv
      <4> QED BY <3>2, <4>1 DEF OnlyRunning, OnlyAsync, OnlyAt, Nowhere,
                                NotInBatchStates, NotIn
    <3>4. r \notin G
      BY <1>5, <3>3
    <3> QED BY <1>4, <1>6, <3>2, <3>4
  <2> QED BY <2>1 DEF FlightInv
<1>9. PlaceInv'
  <2> SUFFICES ASSUME NEW r \in Requests
               PROVE  /\ (InOnePlace(r) \/ Nowhere(r))'
                      /\ (status[r] = "accepted" /\ r \notin stopped => InOnePlace(r))'
                      /\ (status[r] # "accepted" => Nowhere(r))'
    BY DEF PlaceInv
  <2>1. CASE r \notin G
    <3>1. /\ Nowhere(r)' <=> Nowhere(r)
          /\ InOnePlace(r)' <=> InOnePlace(r)
      BY <1>7, <2>1
    <3>2. /\ status'[r] = status[r]
          /\ r \in stopped' <=> r \in stopped
      BY <1>1, <2>1 DEF PlacesInv, TypeOK
    <3>3. /\ InOnePlace(r) \/ Nowhere(r)
          /\ status[r] = "accepted" /\ r \notin stopped => InOnePlace(r)
          /\ status[r] # "accepted" => Nowhere(r)
      BY DEF PlacesInv, PlaceInv
    <3> QED BY <3>1, <3>2, <3>3
  <2>2. CASE r \in G
    <3>1. \/ status'[r] = "refused" /\ r \notin waiting_reqs'
          \/ status'[r] = "accepted" /\ r \in waiting_reqs'
      BY <1>1, <1>5, <2>2 DEF Nowhere
    <3>2. /\ NotInBatchStates(r)' /\ NotInDp(r)' /\ r \notin schedule'.collected
      BY <1>1, <1>5, <2>2 DEF Nowhere, NotInBatchStates, NotIn, NotInDp
    <3>3. CASE status'[r] = "refused" /\ r \notin waiting_reqs'
      <4>1. Nowhere(r)'
        BY <3>2, <3>3 DEF Nowhere
      <4> QED BY <3>3, <4>1
    <3>4. CASE status'[r] = "accepted" /\ r \in waiting_reqs'
      <4>1. OnlyArrived(r)'
        BY <3>2, <3>4 DEF OnlyArrived
      <4>2. InOnePlace(r)'
        BY <4>1 DEF InOnePlace
      <4> QED BY <3>4, <4>2
    <3> QED BY <3>1, <3>3, <3>4
  <2> QED BY <2>1, <2>2
<1> QED BY <1>3, <1>8, <1>9 DEF PlacesOnly

\* Schedule takes what has arrived.
LEMMA CollectPlaces ==
  ASSUME PlacesInv, NEW b \in Batches, CollectWaitingReqs(b)
  PROVE  PlacesOnly'
<1>1. /\ schedule = NoSchedule
      /\ schedule' = [batch |-> b, at |-> "balance", collected |-> waiting_reqs]
      /\ waiting_reqs' = {}
      /\ UNCHANGED <<config, stopped, status, dp_waiting_reqs, waiting_queue,
                     decoding_queue, running_reqs, async_recomputed_reqs, outputs>>
  BY DEF CollectWaitingReqs, MutexIsFree, requests, batch_states
<1>2. ScheduleInv'
  BY <1>1 DEF ScheduleInv
<1>3. Ranks' = Ranks /\ Batches' = Batches /\ ActiveSlots' = ActiveSlots
  BY <1>1 DEF Ranks, Batches, ActiveSlots
<1>4. \A r : /\ NotInBatchStates(r)' <=> NotInBatchStates(r)
             /\ NotInDp(r)' <=> NotInDp(r)
             /\ r \notin schedule.collected
             /\ r \notin waiting_reqs'
             /\ r \in schedule'.collected <=> r \in waiting_reqs
  BY <1>1 DEF NotInBatchStates, NotIn, NotInDp, NoSchedule
<1>5. \A r : /\ Nowhere(r) => Nowhere(r)'
             /\ OnlyArrived(r) => OnlyCollected(r)'
             /\ ~OnlyCollected(r)
             /\ OnlyDp(r) => OnlyDp(r)'
  BY <1>1, <1>3, <1>4 DEF Nowhere, OnlyArrived, OnlyCollected, OnlyDp
<1>6. \A r : OutOfPool(r) => OutOfPool(r)'
  BY <1>4 DEF OutOfPool
<1>7. \A r, s : /\ OnlyWaiting(r, s) => OnlyWaiting(r, s)'
                /\ OnlyDecoding(r, s) => OnlyDecoding(r, s)'
                /\ OnlyRunning(r, s) => OnlyRunning(r, s)'
                /\ OnlyAsync(r, s) => OnlyAsync(r, s)'
  BY <1>1, <1>6 DEF OnlyWaiting, OnlyDecoding, OnlyRunning, OnlyAsync, OnlyAt, NotIn
<1>8. Moves({})
  BY <1>3, <1>5, <1>7 DEF Moves, InOnePlace
<1>9. PlaceInv'
  BY <1>1, <1>8, MovesKeepPlaces DEF PlacesInv
<1>10. FlightInv'
  <2>1. \A c : InFlight(c)' = InFlight(c)
    BY <1>1 DEF InFlight
  <2> QED BY <1>3, <1>7, <2>1 DEF PlacesInv, FlightInv
<1> QED BY <1>2, <1>9, <1>10 DEF PlacesOnly

\* A round moves the requests of pool, which had arrived or waited, out of the
\* places they were in; nothing else moves.
LeavePlaces(pool) ==
  /\ schedule.at = "balance" /\ schedule'.collected = {}
  /\ UNCHANGED <<config, decoding_queue, running_reqs, async_recomputed_reqs,
                 outputs, status, stopped>>
  /\ \A r \in pool : OnlyCollected(r) \/ OnlyDp(r) \/ \E s \in ActiveSlots : OnlyWaiting(r, s)
  /\ \A r : r \notin pool => r \notin schedule.collected /\ NotInDp(r)
  /\ \A s \in Slots : \A r : r \in waiting_queue'[s] <=> r \in waiting_queue[s] \ pool

\* What the batches and the executor have does not move in a round.
LEMMA LeaveStays ==
  ASSUME TypeOK, NEW pool, LeavePlaces(pool), NEW r
  PROVE  /\ r \in pool => NotInBatchStates(r)' /\ r \notin waiting_reqs
         /\ r \notin pool => /\ NotInBatchStates(r)' <=> NotInBatchStates(r)
                             /\ r \notin schedule.collected /\ NotInDp(r)
                             /\ \A s : OnlyAt(waiting_queue, s, r)
                                         => OnlyAt(waiting_queue, s, r)'
         /\ \A s : /\ OnlyAt(decoding_queue, s, r)' <=> OnlyAt(decoding_queue, s, r)
                   /\ OnlyAt(running_reqs, s, r)' <=> OnlyAt(running_reqs, s, r)
                   /\ OnlyAt(async_recomputed_reqs, s, r)'
                        <=> OnlyAt(async_recomputed_reqs, s, r)
<1>1. /\ NotIn(decoding_queue, r)' <=> NotIn(decoding_queue, r)
      /\ NotIn(running_reqs, r)' <=> NotIn(running_reqs, r)
      /\ NotIn(async_recomputed_reqs, r)' <=> NotIn(async_recomputed_reqs, r)
  BY DEF LeavePlaces, NotIn
<1>2. \A s : /\ OnlyAt(decoding_queue, s, r)' <=> OnlyAt(decoding_queue, s, r)
             /\ OnlyAt(running_reqs, s, r)' <=> OnlyAt(running_reqs, s, r)
             /\ OnlyAt(async_recomputed_reqs, s, r)'
                  <=> OnlyAt(async_recomputed_reqs, s, r)
  BY DEF LeavePlaces, OnlyAt
<1>3. \A s \in Slots : r \in waiting_queue'[s] <=> r \in waiting_queue[s] /\ r \notin pool
  BY DEF LeavePlaces
<1>4. ASSUME r \in pool
      PROVE  NotInBatchStates(r)' /\ r \notin waiting_reqs
  <2>1. /\ NotIn(decoding_queue, r) /\ NotIn(running_reqs, r)
        /\ NotIn(async_recomputed_reqs, r) /\ r \notin waiting_reqs
    BY <1>4 DEF LeavePlaces, OnlyCollected, OnlyDp, OnlyWaiting, NotInBatchStates, OutOfPool
  <2>2. NotIn(waiting_queue, r)'
    BY <1>3, <1>4 DEF NotIn
  <2> QED BY <1>1, <2>1, <2>2 DEF NotInBatchStates
<1>5. ASSUME r \notin pool
      PROVE  /\ NotInBatchStates(r)' <=> NotInBatchStates(r)
             /\ r \notin schedule.collected /\ NotInDp(r)
             /\ \A s : OnlyAt(waiting_queue, s, r) => OnlyAt(waiting_queue, s, r)'
  <2>1. NotIn(waiting_queue, r)' <=> NotIn(waiting_queue, r)
    BY <1>3, <1>5 DEF NotIn
  <2>2. NotInBatchStates(r)' <=> NotInBatchStates(r)
    BY <1>1, <2>1 DEF NotInBatchStates
  <2>3. r \notin schedule.collected /\ NotInDp(r)
    BY <1>5 DEF LeavePlaces
  <2>4. \A s : OnlyAt(waiting_queue, s, r) => OnlyAt(waiting_queue, s, r)'
    BY <1>3, <1>5 DEF OnlyAt
  <2> QED BY <2>2, <2>3, <2>4
<1> QED BY <1>2, <1>4, <1>5

\* When the requests that leave are in one place again, everything is.
LEMMA RoundPlaces ==
  ASSUME PlacesInv, NEW pool, LeavePlaces(pool),
         \A r \in pool : InOnePlace(r)',
         \A r : r \notin pool =>
           /\ NotInDp(r)'
           /\ r \in waiting_reqs' <=> r \in waiting_reqs
  PROVE  PlacesOnly'
<1>1. TypeOK /\ UNCHANGED <<config, outputs, status, stopped>>
      /\ schedule'.collected = {}
  BY DEF PlacesInv, LeavePlaces
<1>2. Ranks' = Ranks /\ Batches' = Batches /\ ActiveSlots' = ActiveSlots
      /\ Ranks \subseteq 1..MaxDp
  BY <1>1, Actives DEF Ranks, Batches, ActiveSlots
<1>4. ASSUME NEW r, r \notin pool
      PROVE  /\ Nowhere(r) => Nowhere(r)'
             /\ OnlyArrived(r) => OnlyArrived(r)'
             /\ ~OnlyCollected(r) /\ ~OnlyDp(r)
             /\ \A s : /\ OnlyWaiting(r, s) => OnlyWaiting(r, s)'
                       /\ OnlyDecoding(r, s) => OnlyDecoding(r, s)'
                       /\ OnlyRunning(r, s) => OnlyRunning(r, s)'
                       /\ OnlyAsync(r, s) => OnlyAsync(r, s)'
  <2>1. /\ NotInBatchStates(r)' <=> NotInBatchStates(r)
        /\ r \notin schedule.collected /\ NotInDp(r)
        /\ \A s : OnlyAt(waiting_queue, s, r) => OnlyAt(waiting_queue, s, r)'
        /\ \A s : /\ OnlyAt(decoding_queue, s, r)' <=> OnlyAt(decoding_queue, s, r)
                  /\ OnlyAt(running_reqs, s, r)' <=> OnlyAt(running_reqs, s, r)
                  /\ OnlyAt(async_recomputed_reqs, s, r)'
                       <=> OnlyAt(async_recomputed_reqs, s, r)
    BY <1>1, <1>4, LeaveStays
  <2>2. NotInDp(r)' /\ (r \in waiting_reqs' <=> r \in waiting_reqs)
    BY <1>4
  <2>3. /\ NotIn(decoding_queue, r)' <=> NotIn(decoding_queue, r)
        /\ NotIn(running_reqs, r)' <=> NotIn(running_reqs, r)
        /\ NotIn(async_recomputed_reqs, r)' <=> NotIn(async_recomputed_reqs, r)
        /\ NotIn(waiting_queue, r)' <=> NotIn(waiting_queue, r)
    BY <1>4 DEF LeavePlaces, NotIn
  <2>4. OutOfPool(r)' <=> r \notin waiting_reqs
    BY <1>1, <2>2 DEF OutOfPool
  <2>5. Nowhere(r) => Nowhere(r)'
    BY <1>1, <2>1, <2>2 DEF Nowhere
  <2>6. OnlyArrived(r) => OnlyArrived(r)'
    BY <1>1, <2>1, <2>2 DEF OnlyArrived
  <2>7. ~OnlyCollected(r) /\ ~OnlyDp(r)
    BY <1>2, <2>1 DEF OnlyCollected, OnlyDp, NotInDp
  <2>8. \A s : /\ OnlyWaiting(r, s) => OnlyWaiting(r, s)'
               /\ OnlyDecoding(r, s) => OnlyDecoding(r, s)'
               /\ OnlyRunning(r, s) => OnlyRunning(r, s)'
               /\ OnlyAsync(r, s) => OnlyAsync(r, s)'
    BY <2>1, <2>3, <2>4 DEF OnlyWaiting, OnlyDecoding, OnlyRunning, OnlyAsync, OutOfPool
  <2> QED BY <2>5, <2>6, <2>7, <2>8
<1>5. ASSUME NEW r \in pool
      PROVE  /\ ~Nowhere(r)
             /\ \A s \in ActiveSlots : ~OnlyRunning(r, s) /\ ~OnlyAsync(r, s)
  <2>1. InOnePlace(r)
    BY DEF LeavePlaces, InOnePlace
  <2>2. ~Nowhere(r)
    BY <1>1, <2>1, OnePlaceOnly
  <2>3. NotIn(running_reqs, r) /\ NotIn(async_recomputed_reqs, r)
    BY DEF LeavePlaces, OnlyCollected, OnlyDp, OnlyWaiting, NotInBatchStates
  <2>4. ActiveSlots \subseteq Slots
    BY <1>1, Actives
  <2> QED BY <2>2, <2>3, <2>4 DEF OnlyRunning, OnlyAsync, OnlyAt, NotIn
<1>6. Moves({})
  <2>1. ASSUME NEW r \in Requests, r \notin pool, InOnePlace(r)
        PROVE  InOnePlace(r)'
    BY <1>2, <1>4, <2>1 DEF InOnePlace
  <2> QED BY <1>4, <1>5, <2>1 DEF Moves
<1>7. PlaceInv'
  BY <1>1, <1>6, MovesKeepPlaces DEF PlacesInv
<1>8. FlightInv'
  <2>1. ASSUME NEW b \in Batches', NEW r \in InFlight(b)'
        PROVE  \E i \in Ranks' : (OnlyRunning(r, <<i, b>>) \/ OnlyAsync(r, <<i, b>>))'
    <3>1. InFlight(b)' = InFlight(b)
      BY <1>1 DEF InFlight
    <3>2. PICK i \in Ranks : OnlyRunning(r, <<i, b>>) \/ OnlyAsync(r, <<i, b>>)
      BY <1>2, <2>1, <3>1 DEF PlacesInv, FlightInv
    <3>3. <<i, b>> \in ActiveSlots
      BY <1>1, <1>2, <2>1, Actives
    <3>4. r \notin pool
      BY <1>5, <3>2, <3>3
    <3> QED BY <1>2, <1>4, <3>2, <3>4
  <2> QED BY <2>1 DEF FlightInv
<1>9. ScheduleInv'
  BY <1>1 DEF ScheduleInv
<1> QED BY <1>7, <1>8, <1>9 DEF PlacesOnly

\* The requests that leave are handed to the ranks.
LEMMA HandedOut ==
  ASSUME PlacesInv, NEW pool, LeavePlaces(pool), NEW rank \in [pool -> Ranks],
         dp_waiting_reqs' = Distributed(pool, rank), waiting_reqs' = waiting_reqs
  PROVE  PlacesOnly'
<1>1. /\ TypeOK /\ Ranks \subseteq 1..MaxDp /\ Ranks' = Ranks
      /\ schedule'.collected = {}
  BY Actives DEF PlacesInv, LeavePlaces, Ranks
<1>2. ASSUME NEW r \in pool PROVE InOnePlace(r)'
  <2>1. NotInBatchStates(r)' /\ r \notin waiting_reqs'
    BY <1>1, LeaveStays
  <2>2. \A j \in 1..MaxDp : r \in dp_waiting_reqs'[j] <=> j = rank[r]
    BY DEF Distributed
  <2>3. rank[r] \in Ranks'
    BY <1>1
  <2>4. OnlyDp(r)'
    BY <1>1, <2>1, <2>2, <2>3 DEF OnlyDp
  <2> QED BY <2>4 DEF InOnePlace
<1>3. \A r : r \notin pool => NotInDp(r)'
  BY DEF NotInDp, Distributed
<1> QED BY <1>2, <1>3, RoundPlaces

\* The requests that leave are put back.
LEMMA PutBack ==
  ASSUME PlacesInv, NEW pool, LeavePlaces(pool),
         dp_waiting_reqs' = [i \in 1..MaxDp |-> {}],
         waiting_reqs' = waiting_reqs \cup pool
  PROVE  PlacesOnly'
<1>1. TypeOK /\ schedule'.collected = {}
  BY DEF PlacesInv, LeavePlaces
<1>2. \A r : NotInDp(r)'
  BY DEF NotInDp
<1>3. ASSUME NEW r \in pool PROVE InOnePlace(r)'
  <2>1. NotInBatchStates(r)' /\ r \in waiting_reqs'
    BY <1>1, LeaveStays
  <2>2. OnlyArrived(r)'
    BY <1>1, <1>2, <2>1 DEF OnlyArrived
  <2> QED BY <2>2 DEF InOnePlace
<1> QED BY <1>2, <1>3, RoundPlaces

\* Where the requests of a round come from.
LEMMA WaitingPlaces ==
  ASSUME PlacesInv, NEW b \in Batches
  PROVE  /\ \A r \in schedule.collected : OnlyCollected(r)
         /\ \A r \in AllDpWaiting : OnlyDp(r)
         /\ \A s \in Slots : \A r \in waiting_queue[s] :
              \E t \in ActiveSlots : OnlyWaiting(r, t)
         /\ \A r \in UNION {waiting_queue[<<i, b>>] : i \in Ranks} :
              \E s \in ActiveSlots : OnlyWaiting(r, s)
         /\ \A r : r \notin AllDpWaiting => NotInDp(r)
<1>1. TypeOK /\ PlaceInv
  BY DEF PlacesInv
<1>2. /\ Ranks \subseteq 1..MaxDp /\ ActiveSlots \subseteq Slots
      /\ \A i \in Ranks : <<i, b>> \in Slots
  BY <1>1, Actives
<1>3. \A r \in Requests : InOnePlace(r) \/ Nowhere(r)
  BY <1>1 DEF PlaceInv
<1>4. ASSUME NEW r \in schedule.collected PROVE OnlyCollected(r)
  <2>1. r \in Requests
    BY <1>1 DEF TypeOK
  <2>2. ~Nowhere(r) /\ ~OnlyArrived(r) /\ ~OnlyDp(r)
    BY DEF Nowhere, OnlyArrived, OnlyDp
  <2>3. \A s : /\ ~OnlyWaiting(r, s) /\ ~OnlyDecoding(r, s)
               /\ ~OnlyRunning(r, s) /\ ~OnlyAsync(r, s)
    BY DEF OnlyWaiting, OnlyDecoding, OnlyRunning, OnlyAsync, OutOfPool
  <2> QED BY <1>3, <2>1, <2>2, <2>3 DEF InOnePlace
<1>5. ASSUME NEW i \in 1..MaxDp, NEW r \in dp_waiting_reqs[i]
      PROVE  OnlyDp(r)
  <2>1. r \in Requests
    BY <1>1, QueueTypes
  <2>2. ~NotInDp(r)
    BY DEF NotInDp
  <2>3. ~Nowhere(r) /\ ~OnlyArrived(r) /\ ~OnlyCollected(r)
    BY <2>2 DEF Nowhere, OnlyArrived, OnlyCollected
  <2>4. \A s : /\ ~OnlyWaiting(r, s) /\ ~OnlyDecoding(r, s)
               /\ ~OnlyRunning(r, s) /\ ~OnlyAsync(r, s)
    BY <2>2 DEF OnlyWaiting, OnlyDecoding, OnlyRunning, OnlyAsync, OutOfPool
  <2> QED BY <1>3, <2>1, <2>3, <2>4 DEF InOnePlace
<1>6. \A r \in AllDpWaiting : OnlyDp(r)
  BY <1>2, <1>5 DEF AllDpWaiting
<1>7. ASSUME NEW r, r \notin AllDpWaiting, NEW i \in 1..MaxDp, r \in dp_waiting_reqs[i]
      PROVE  FALSE
  <2>1. OnlyDp(r)
    BY <1>5, <1>7
  <2>2. PICK k \in Ranks : \A j \in 1..MaxDp : r \in dp_waiting_reqs[j] <=> j = k
    BY <2>1 DEF OnlyDp
  <2>3. i \in Ranks
    BY <1>7, <2>2
  <2> QED BY <1>7, <2>3 DEF AllDpWaiting
<1>8. ASSUME NEW s \in Slots, NEW r \in waiting_queue[s]
      PROVE  \E t \in ActiveSlots : OnlyWaiting(r, t)
  <2>1. r \in Requests
    BY <1>1, QueueTypes
  <2>2. ~NotIn(waiting_queue, r)
    BY DEF NotIn
  <2>3. ~Nowhere(r) /\ ~OnlyArrived(r) /\ ~OnlyCollected(r) /\ ~OnlyDp(r)
    BY <2>2 DEF Nowhere, OnlyArrived, OnlyCollected, OnlyDp, NotInBatchStates
  <2>4. \A t : ~OnlyDecoding(r, t) /\ ~OnlyRunning(r, t) /\ ~OnlyAsync(r, t)
    BY <2>2 DEF OnlyDecoding, OnlyRunning, OnlyAsync
  <2> QED BY <1>3, <2>1, <2>3, <2>4 DEF InOnePlace
<1>9. \A r \in UNION {waiting_queue[<<i, b>>] : i \in Ranks} :
        \E s \in ActiveSlots : OnlyWaiting(r, s)
  BY <1>2, <1>8
<1> QED BY <1>4, <1>6, <1>7, <1>8, <1>9 DEF NotInDp

\* The ranks of a run without ADP balance.
LEMMA BalancePlaces ==
  ASSUME PlacesInv, NEW b \in Batches, BalanceWaitingReqs(b)
  PROVE  PlacesOnly'
<1>1. /\ schedule.at = "balance"
      /\ schedule' = [batch |-> b, at |-> "strategies", collected |-> {}]
      /\ UNCHANGED <<config, status, stopped, waiting_reqs, waiting_queue,
                     decoding_queue, running_reqs, async_recomputed_reqs, outputs>>
  BY DEF BalanceWaitingReqs, AtBalance, Balanced, requests, batch_states
<1>2. ScheduleInv'
  BY <1>1 DEF ScheduleInv
<1>3. CASE schedule.collected = {}
  <2>1. dp_waiting_reqs' = dp_waiting_reqs
    BY <1>3 DEF BalanceWaitingReqs
  <2>2. UNCHANGED places
    BY <1>1, <1>3, <2>1 DEF places, queues, batch_states
  <2> QED BY <1>1, <1>2, <2>2, StillPlaces
<1>4. CASE schedule.collected # {}
  <2> DEFINE pool == schedule.collected \cup AllDpWaiting
  <2>1. PICK rank \in [pool -> Ranks] : dp_waiting_reqs' = Distributed(pool, rank)
    BY <1>4 DEF BalanceWaitingReqs
  <2>2. /\ \A r \in pool : OnlyCollected(r) \/ OnlyDp(r)
        /\ \A r : r \notin pool => r \notin schedule.collected /\ NotInDp(r)
        /\ \A s \in Slots : \A r \in waiting_queue[s] :
             \E t \in ActiveSlots : OnlyWaiting(r, t)
    BY WaitingPlaces
  <2>3. \A s \in Slots : \A r : r \in waiting_queue'[s] <=> r \in waiting_queue[s] \ pool
    <3>1. ASSUME NEW s \in Slots, NEW r \in waiting_queue[s] PROVE r \notin pool
      <4>1. NotInDp(r) /\ r \notin schedule.collected
        BY <2>2 DEF OnlyWaiting, OutOfPool
      <4>2. r \notin AllDpWaiting
        BY <4>1, Actives DEF AllDpWaiting, NotInDp, PlacesInv
      <4> QED BY <4>1, <4>2
    <3> QED BY <1>1, <3>1
  <2>4. LeavePlaces(pool)
    BY <1>1, <2>2, <2>3 DEF LeavePlaces
  <2> QED BY <1>1, <2>1, <2>4, HandedOut
<1> QED BY <1>3, <1>4

\* A round of ADP balance.
LEMMA ADPPlaces ==
  ASSUME PlacesInv, NEW b \in Batches, BalanceADPRequests(b)
  PROVE  PlacesOnly'
<1> DEFINE pool == ADPPool(b)
<1>1. /\ schedule.at = "balance"
      /\ schedule' = [batch |-> b, at |-> "strategies", collected |-> {}]
      /\ waiting_queue' = EmptiedWaitingQueues(b)
      /\ UNCHANGED <<config, status, stopped, decoding_queue, running_reqs,
                     async_recomputed_reqs, outputs>>
      /\ \/ /\ \E rank \in [pool -> Ranks] : dp_waiting_reqs' = Distributed(pool, rank)
            /\ waiting_reqs' = waiting_reqs
         \/ /\ dp_waiting_reqs' = [i \in 1..MaxDp |-> {}]
            /\ waiting_reqs' = waiting_reqs \cup pool
  BY DEF BalanceADPRequests, AtBalance, Balanced, requests
<1>2. /\ \A r \in pool : OnlyCollected(r) \/ OnlyDp(r) \/ \E s \in ActiveSlots : OnlyWaiting(r, s)
      /\ \A r : r \notin pool => r \notin schedule.collected /\ NotInDp(r)
  <2>1. \A r : r \in pool <=> \/ r \in schedule.collected \/ r \in AllDpWaiting
                              \/ r \in UNION {waiting_queue[<<i, b>>] : i \in Ranks}
    BY DEF ADPPool
  <2> QED BY <2>1, WaitingPlaces
<1>3. ASSUME NEW s \in Slots, NEW r
      PROVE  r \in waiting_queue'[s] <=> r \in waiting_queue[s] \ pool
  <2>1. r \in waiting_queue'[s] <=> r \in waiting_queue[s] /\ s[2] # b
    BY <1>1 DEF EmptiedWaitingQueues
  <2>2. ASSUME r \in waiting_queue[s] PROVE r \in pool <=> s[2] = b
    <3>1. PICK t \in ActiveSlots : OnlyWaiting(r, t)
      BY <2>2, WaitingPlaces
    <3>2. t = s
      BY <2>2, <3>1 DEF OnlyWaiting, OnlyAt
    <3>3. r \in InBatch(waiting_queue, b) <=> s[2] = b
      BY <3>1, <3>2, InBatchAt DEF OnlyWaiting, PlacesInv
    <3>4. r \notin schedule.collected /\ r \notin AllDpWaiting
      BY <3>1, Actives DEF OnlyWaiting, OutOfPool, AllDpWaiting, NotInDp, PlacesInv
    <3> QED BY <3>3, <3>4 DEF ADPPool, InBatch
  <2> QED BY <2>1, <2>2
<1> HIDE DEF pool
<1>4. LeavePlaces(pool)
  BY <1>1, <1>2, <1>3 DEF LeavePlaces
<1> QED BY <1>1, <1>4, HandedOut, PutBack

-----------------------------------------------------------------------------
(***************************************************************************)
(* Where a strategy puts the requests.                                     *)
(***************************************************************************)

\* Where r is after the strategies of batch b.
StrategiesMoved(b, A, R, Y, r) ==
  \A t \in Slots :
    LET here == t[2] = b
        gone == here /\ r \in Gone(b)
        arriving == r \in waiting_queue[t] \/ (here /\ r \in dp_waiting_reqs[t[1]])
        admitted == here /\ r \in A
    IN  /\ r \in running_reqs'[t] <=>
             \/ r \in running_reqs[t] /\ ~gone /\ ~(here /\ r \in Y)
             \/ admitted /\ (arriving \/ r \in decoding_queue[t])
        /\ r \in waiting_queue'[t] <=>
             \/ arriving /\ ~gone /\ ~admitted
             \/ here /\ r \in R /\ r \in decoding_queue[t]
        /\ r \in decoding_queue'[t] <=>
             r \in decoding_queue[t] /\ ~gone /\ ~admitted /\ ~(here /\ r \in R)
        /\ r \in async_recomputed_reqs'[t] <=>
             \/ r \in async_recomputed_reqs[t]
             \/ here /\ r \in Y /\ r \in running_reqs[t]

\* The assignments of the strategies, request by request.
LEMMA StrategiesAssign ==
  ASSUME NEW b, NEW A, NEW R, NEW Y, Strategies(b, A, R, Y), NEW r
  PROVE  StrategiesMoved(b, A, R, Y, r)
<1> DEFINE Here(s, S) == IF s[2] = b THEN S ELSE {}
<1>1. /\ running_reqs' = [s \in Slots |->
           (running_reqs[s] \ Here(s, Y \cup Gone(b)))
             \cup Here(s, A \cap (Merged(b)[s] \cup decoding_queue[s]))]
      /\ waiting_queue' = [s \in Slots |->
           (Merged(b)[s] \ Here(s, A \cup Gone(b)))
             \cup Here(s, R \cap decoding_queue[s])]
      /\ decoding_queue' = [s \in Slots |->
           decoding_queue[s] \ Here(s, A \cup R \cup Gone(b))]
      /\ async_recomputed_reqs' = [s \in Slots |->
           async_recomputed_reqs[s] \cup Here(s, Y \cap running_reqs[s])]
  BY Zenon DEF Strategies, Merged, Gone
<1>2. ASSUME NEW t \in Slots
      PROVE  r \in Merged(b)[t] <=>
               r \in waiting_queue[t] \/ (t[2] = b /\ r \in dp_waiting_reqs[t[1]])
  BY DEF Merged
<1> HIDE DEF Slots, Merged, Gone
<1>3. ASSUME NEW t \in Slots, t[2] = b
      PROVE  /\ running_reqs'[t] = (running_reqs[t] \ (Y \cup Gone(b)))
                  \cup (A \cap (Merged(b)[t] \cup decoding_queue[t]))
             /\ waiting_queue'[t] = (Merged(b)[t] \ (A \cup Gone(b)))
                  \cup (R \cap decoding_queue[t])
             /\ decoding_queue'[t] = decoding_queue[t] \ (A \cup R \cup Gone(b))
             /\ async_recomputed_reqs'[t] =
                  async_recomputed_reqs[t] \cup (Y \cap running_reqs[t])
  BY <1>1, <1>3
<1>4. ASSUME NEW t \in Slots, t[2] # b
      PROVE  /\ r \in running_reqs'[t] <=> r \in running_reqs[t]
             /\ r \in waiting_queue'[t] <=> r \in Merged(b)[t]
             /\ r \in decoding_queue'[t] <=> r \in decoding_queue[t]
             /\ r \in async_recomputed_reqs'[t] <=> r \in async_recomputed_reqs[t]
  BY <1>1, <1>4
<1>5. ASSUME NEW t \in Slots
      PROVE  r \in running_reqs'[t] <=>
               \/ /\ r \in running_reqs[t]
                  /\ ~(t[2] = b /\ r \in Gone(b)) /\ ~(t[2] = b /\ r \in Y)
               \/ /\ t[2] = b /\ r \in A
                  /\ r \in Merged(b)[t] \/ r \in decoding_queue[t]
  BY <1>3, <1>4
<1>6. ASSUME NEW t \in Slots
      PROVE  /\ r \in waiting_queue'[t] <=>
                  \/ /\ r \in Merged(b)[t]
                     /\ ~(t[2] = b /\ r \in Gone(b)) /\ ~(t[2] = b /\ r \in A)
                  \/ t[2] = b /\ r \in R /\ r \in decoding_queue[t]
             /\ r \in decoding_queue'[t] <=>
                  /\ r \in decoding_queue[t] /\ ~(t[2] = b /\ r \in Gone(b))
                  /\ ~(t[2] = b /\ r \in A) /\ ~(t[2] = b /\ r \in R)
             /\ r \in async_recomputed_reqs'[t] <=>
                  \/ r \in async_recomputed_reqs[t]
                  \/ t[2] = b /\ r \in Y /\ r \in running_reqs[t]
  BY <1>3, <1>4
<1> QED BY <1>2, <1>5, <1>6 DEF StrategiesMoved

\* Who leaves for good in a Schedule of batch b.
LEMMA GoneIs ==
  ASSUME TypeOK, NEW b \in Batches, NEW r
  PROVE  r \in Gone(b) <=>
           /\ r \in stopped /\ r \notin InFlight(b)
           /\ \E i \in Ranks : \/ r \in waiting_queue[<<i, b>>]
                               \/ r \in dp_waiting_reqs[i]
                               \/ r \in decoding_queue[<<i, b>>]
                               \/ r \in running_reqs[<<i, b>>]
<1>1. \A i \in Ranks : <<i, b>> \in Slots
  BY Actives
<1>2. \A i \in Ranks : r \in Merged(b)[<<i, b>>] <=>
        r \in waiting_queue[<<i, b>>] \/ r \in dp_waiting_reqs[i]
  BY <1>1 DEF Merged
<1>3. /\ r \in InBatch(Merged(b), b) <=> \E i \in Ranks : r \in Merged(b)[<<i, b>>]
      /\ r \in InBatch(decoding_queue, b) <=> \E i \in Ranks : r \in decoding_queue[<<i, b>>]
      /\ r \in InBatch(running_reqs, b) <=> \E i \in Ranks : r \in running_reqs[<<i, b>>]
  BY DEF InBatch
<1> QED BY <1>2, <1>3 DEF Gone

\* A Schedule of batch b whose strategies choose A, R and Y.
StrategiesStep(b, A, R, Y) ==
  /\ StrategyOf(b, A, R, Y)
  /\ schedule.at = "strategies" /\ schedule' = NoSchedule
  /\ dp_waiting_reqs' = [i \in 1..MaxDp |-> {}]
  /\ UNCHANGED <<config, stopped, waiting_reqs, outputs>>

\* What a Schedule does to all places alike.
LEMMA StrategiesPool ==
  ASSUME PlacesInv, NEW b \in Batches, NEW A, NEW R, NEW Y,
         StrategiesStep(b, A, R, Y)
  PROVE  /\ Ranks' = Ranks /\ Batches' = Batches /\ ActiveSlots' = ActiveSlots
         /\ ScheduleInv'
         /\ \A r : ~OnlyCollected(r)
         /\ \A r : OutOfPool(r)' <=> r \notin waiting_reqs
         /\ \A r : NotInDp(r)' /\ r \notin schedule'.collected
         /\ \A r : InFlight(r)' = InFlight(r)
<1>1. schedule.collected = {} /\ schedule'.collected = {}
  BY DEF StrategiesStep, PlacesInv, ScheduleInv, NoSchedule
<1>2. Ranks' = Ranks /\ Batches' = Batches
  BY DEF StrategiesStep, Ranks, Batches
<1>3. ActiveSlots' = ActiveSlots
  BY <1>2 DEF ActiveSlots
<1>4. \A r : NotInDp(r)'
  BY DEF StrategiesStep, NotInDp
<1>5. waiting_reqs' = waiting_reqs /\ outputs' = outputs
  BY DEF StrategiesStep
<1>6. \A r : InFlight(r)' = InFlight(r)
  BY <1>5 DEF InFlight
<1>7. \A r : OutOfPool(r)' <=> r \notin waiting_reqs
  BY <1>1, <1>4, <1>5 DEF OutOfPool
<1>8. \A r : ~OnlyCollected(r)
  BY <1>1 DEF OnlyCollected
<1> QED BY <1>1, <1>2, <1>3, <1>4, <1>6, <1>7, <1>8 DEF ScheduleInv

\* A request that has not reached the ranks is not moved.
LEMMA StrategiesElsewhere ==
  ASSUME PlacesInv, NEW b \in Batches, NEW A, NEW R, NEW Y,
         StrategiesStep(b, A, R, Y), NEW r, Nowhere(r) \/ OnlyArrived(r)
  PROVE  /\ r \notin Gone(b)
         /\ Nowhere(r) => Nowhere(r)'
         /\ OnlyArrived(r) => OnlyArrived(r)'
<1>1. NotInBatchStates(r) /\ NotInDp(r) /\ TypeOK
  BY DEF Nowhere, OnlyArrived, PlacesInv
<1>2. StrategiesMoved(b, A, R, Y, r)
  BY StrategiesAssign DEF StrategiesStep, StrategyOf
<1>3. \A t \in Slots : t[1] \in 1..MaxDp
  BY DEF Slots
<1>4. NotInBatchStates(r)'
  BY <1>1, <1>2, <1>3 DEF NotInBatchStates, NotIn, NotInDp, StrategiesMoved
<1>5. r \notin Gone(b)
  <2>1. Ranks \subseteq 1..MaxDp /\ \A i \in Ranks : <<i, b>> \in Slots
    BY <1>1, Actives
  <2> QED BY <1>1, <2>1, GoneIs DEF NotInBatchStates, NotIn, NotInDp
<1>6. NotInDp(r)' /\ r \notin schedule'.collected
      /\ waiting_reqs' = waiting_reqs
  BY StrategiesPool DEF StrategiesStep
<1> QED BY <1>4, <1>5, <1>6 DEF Nowhere, OnlyArrived

\* A request in a slot of another batch is not moved.
LEMMA StrategiesOther ==
  ASSUME PlacesInv, NEW b \in Batches, NEW A, NEW R, NEW Y,
         StrategiesStep(b, A, R, Y), NEW s \in ActiveSlots, s[2] # b, NEW r,
         \/ OnlyWaiting(r, s) \/ OnlyDecoding(r, s)
         \/ OnlyRunning(r, s) \/ OnlyAsync(r, s)
  PROVE  /\ r \notin Gone(b)
         /\ OnlyWaiting(r, s) => OnlyWaiting(r, s)'
         /\ OnlyDecoding(r, s) => OnlyDecoding(r, s)'
         /\ OnlyRunning(r, s) => OnlyRunning(r, s)'
         /\ OnlyAsync(r, s) => OnlyAsync(r, s)'
<1>1. /\ TypeOK /\ NotInDp(r) /\ OutOfPool(r)'
      /\ s \in Slots /\ s = <<s[1], s[2]>>
  BY StrategiesPool, Actives DEF PlacesInv, OnlyWaiting, OnlyDecoding, OnlyRunning,
                                 OnlyAsync, OutOfPool
<1>2. \A t \in Slots : t # s =>
        /\ r \notin waiting_queue[t] /\ r \notin decoding_queue[t]
        /\ r \notin running_reqs[t] /\ r \notin async_recomputed_reqs[t]
  BY DEF OnlyWaiting, OnlyDecoding, OnlyRunning, OnlyAsync, OnlyAt, NotIn
<1>3. \A t \in Slots : t[1] \in 1..MaxDp
  BY DEF Slots
<1>4. \A t \in Slots : t[2] = b => r \notin dp_waiting_reqs[t[1]]
  BY <1>1, <1>3 DEF NotInDp
<1>5. ASSUME NEW t \in Slots
      PROVE  /\ r \in running_reqs'[t] <=> r \in running_reqs[t]
             /\ r \in waiting_queue'[t] <=> r \in waiting_queue[t]
             /\ r \in decoding_queue'[t] <=> r \in decoding_queue[t]
             /\ r \in async_recomputed_reqs'[t] <=> r \in async_recomputed_reqs[t]
  <2>1. StrategiesMoved(b, A, R, Y, r)
    BY StrategiesAssign DEF StrategiesStep, StrategyOf
  <2> QED BY <1>2, <1>4, <2>1 DEF StrategiesMoved
<1>6. r \notin Gone(b)
  <2>1. Ranks \subseteq 1..MaxDp /\ \A i \in Ranks : <<i, b>> \in Slots /\ <<i, b>> # s
    BY <1>1, Actives
  <2> QED BY <1>1, <1>2, <2>1, GoneIs DEF NotInDp
<1> QED BY <1>1, <1>5, <1>6 DEF OnlyWaiting, OnlyDecoding, OnlyRunning, OnlyAsync,
                                OnlyAt, NotIn

\* A request that waits at a rank is admitted, waits there, or leaves for good.
LEMMA StrategiesWaiting ==
  ASSUME PlacesInv, NEW b \in Batches, NEW A, NEW R, NEW Y,
         StrategiesStep(b, A, R, Y), NEW r,
         OnlyDp(r) \/ \E s \in ActiveSlots : s[2] = b /\ OnlyWaiting(r, s)
  PROVE  /\ r \in Gone(b) => r \in stopped' /\ Nowhere(r)'
         /\ r \notin Gone(b) => InOnePlace(r)'
         /\ ~Nowhere(r)
<1>1. /\ TypeOK /\ stopped' = stopped /\ A \subseteq Requests \ stopped
      /\ ActiveSlots' = ActiveSlots
      /\ NotInDp(r)' /\ r \notin schedule'.collected /\ waiting_reqs' = waiting_reqs
  BY StrategiesPool DEF PlacesInv, StrategiesStep, StrategyOf
<1>2. /\ NotIn(decoding_queue, r) /\ NotIn(running_reqs, r)
      /\ NotIn(async_recomputed_reqs, r) /\ r \notin waiting_reqs
  BY DEF OnlyDp, OnlyWaiting, NotInBatchStates, OutOfPool
<1>3. \A t \in Slots : t[1] \in 1..MaxDp /\ t = <<t[1], t[2]>>
  BY DEF Slots
<1>4. PICK s \in ActiveSlots :
        /\ s[2] = b
        /\ \A t \in Slots :
             r \in waiting_queue[t] \/ (t[2] = b /\ r \in dp_waiting_reqs[t[1]]) <=> t = s
  <2>1. CASE OnlyDp(r)
    <3>1. PICK i \in Ranks : \A j \in 1..MaxDp : r \in dp_waiting_reqs[j] <=> j = i
      BY <2>1 DEF OnlyDp
    <3>2. <<i, b>> \in ActiveSlots /\ \A t \in Slots : r \notin waiting_queue[t]
      BY <1>1, <2>1, Actives DEF OnlyDp, NotInBatchStates, NotIn
    <3>3. \A t \in Slots : t[2] = b /\ r \in dp_waiting_reqs[t[1]] <=> t = <<i, b>>
      BY <1>3, <3>1
    <3> QED BY <3>2, <3>3
  <2>2. ASSUME NEW s \in ActiveSlots, s[2] = b, OnlyWaiting(r, s)
        PROVE  \A t \in Slots :
          r \in waiting_queue[t] \/ (t[2] = b /\ r \in dp_waiting_reqs[t[1]]) <=> t = s
    <3>1. \A t \in Slots : r \notin dp_waiting_reqs[t[1]]
      BY <1>3, <2>2 DEF OnlyWaiting, OutOfPool, NotInDp
    <3> QED BY <2>2, <3>1 DEF OnlyWaiting, OnlyAt
  <2> QED BY <2>1, <2>2
<1>5. /\ StrategiesMoved(b, A, R, Y, r)
      /\ r \in Gone(b) => r \in stopped
  BY StrategiesAssign DEF StrategiesStep, StrategyOf, Gone
<1>6. ASSUME NEW t \in Slots
      PROVE  /\ r \in running_reqs'[t] <=> t = s /\ r \in A
             /\ r \in waiting_queue'[t] <=> t = s /\ r \notin A /\ r \notin Gone(b)
             /\ r \notin decoding_queue'[t]
             /\ r \notin async_recomputed_reqs'[t]
  <2>1. /\ r \notin decoding_queue[t] /\ r \notin running_reqs[t]
        /\ r \notin async_recomputed_reqs[t]
    BY <1>2 DEF NotIn
  <2> QED BY <1>4, <1>5, <2>1 DEF StrategiesMoved
<1>7. r \in Gone(b) => r \notin A
  BY <1>1, <1>5
<1>8. r \in Gone(b) => Nowhere(r)'
  BY <1>1, <1>2, <1>6, <1>7 DEF Nowhere, NotInBatchStates, NotIn
<1>9. r \in A => OnlyRunning(r, s)'
  BY <1>1, <1>2, <1>6 DEF OnlyRunning, OnlyAt, NotIn, OutOfPool
<1>10. r \notin A /\ r \notin Gone(b) => OnlyWaiting(r, s)'
  BY <1>1, <1>2, <1>6 DEF OnlyWaiting, OnlyAt, NotIn, OutOfPool
<1>11. ~Nowhere(r)
  <2>1. ActiveSlots \subseteq Slots /\ Ranks \subseteq 1..MaxDp
    BY <1>1, Actives
  <2> QED BY <2>1 DEF Nowhere, NotInBatchStates, NotInDp, NotIn, OnlyDp, OnlyWaiting, OnlyAt
<1> QED BY <1>1, <1>4, <1>5, <1>8, <1>9, <1>10, <1>11 DEF InOnePlace

\* A request between two steps is admitted, loses its KV and waits, stays, or
\* leaves for good.
LEMMA StrategiesDecoding ==
  ASSUME PlacesInv, NEW b \in Batches, NEW A, NEW R, NEW Y,
         StrategiesStep(b, A, R, Y), NEW s \in ActiveSlots, s[2] = b, NEW r,
         OnlyDecoding(r, s)
  PROVE  /\ r \in Gone(b) => r \in stopped' /\ Nowhere(r)'
         /\ r \notin Gone(b) => InOnePlace(r)'
         /\ r \notin Gone(b) /\ r \notin R => OnlyRunning(r, s)' \/ OnlyDecoding(r, s)'
         /\ ~Nowhere(r)
<1>1. /\ TypeOK /\ stopped' = stopped /\ A \subseteq Requests \ stopped
      /\ A \cap R = {} /\ R \cap stopped = {}
      /\ ActiveSlots' = ActiveSlots /\ s \in Slots
      /\ NotInDp(r)' /\ r \notin schedule'.collected /\ waiting_reqs' = waiting_reqs
  BY StrategiesPool, Actives DEF PlacesInv, StrategiesStep, StrategyOf
<1>2. \A t \in Slots : t[1] \in 1..MaxDp
  BY DEF Slots
<1>3. /\ StrategiesMoved(b, A, R, Y, r)
      /\ r \in Gone(b) => r \in stopped
  BY StrategiesAssign DEF StrategiesStep, StrategyOf, Gone
<1>4. ASSUME NEW t \in Slots
      PROVE  /\ r \in running_reqs'[t] <=> t = s /\ r \in A
             /\ r \in waiting_queue'[t] <=> t = s /\ r \in R
             /\ r \in decoding_queue'[t] <=>
                  t = s /\ r \notin A /\ r \notin R /\ r \notin Gone(b)
             /\ r \notin async_recomputed_reqs'[t]
  <2>1. /\ r \notin waiting_queue[t] /\ r \notin running_reqs[t]
        /\ r \notin async_recomputed_reqs[t] /\ r \notin dp_waiting_reqs[t[1]]
        /\ r \in decoding_queue[t] <=> t = s
    BY <1>2 DEF OnlyDecoding, NotIn, OnlyAt, OutOfPool, NotInDp
  <2> QED BY <1>3, <2>1 DEF StrategiesMoved
<1>5. r \notin waiting_reqs' /\ (r \in Gone(b) => r \notin A /\ r \notin R)
  BY <1>1, <1>3 DEF OnlyDecoding, OutOfPool
<1>6. r \in Gone(b) => Nowhere(r)'
  BY <1>1, <1>4, <1>5 DEF Nowhere, NotInBatchStates, NotIn
<1>7. r \in A => OnlyRunning(r, s)'
  BY <1>1, <1>4, <1>5 DEF OnlyRunning, OnlyAt, NotIn, OutOfPool
<1>8. r \in R => OnlyWaiting(r, s)'
  BY <1>1, <1>4, <1>5 DEF OnlyWaiting, OnlyAt, NotIn, OutOfPool
<1>9. r \notin A /\ r \notin R /\ r \notin Gone(b) => OnlyDecoding(r, s)'
  BY <1>1, <1>4, <1>5 DEF OnlyDecoding, OnlyAt, NotIn, OutOfPool
<1>10. ~Nowhere(r)
  BY <1>1 DEF Nowhere, NotInBatchStates, NotIn, OnlyDecoding, OnlyAt
<1> QED BY <1>1, <1>3, <1>6, <1>7, <1>8, <1>9, <1>10 DEF InOnePlace

\* A request of the batch stays, is taken out, or leaves for good.
LEMMA StrategiesRunning ==
  ASSUME PlacesInv, NEW b \in Batches, NEW A, NEW R, NEW Y,
         StrategiesStep(b, A, R, Y), NEW s \in ActiveSlots, s[2] = b, NEW r,
         OnlyRunning(r, s) \/ OnlyAsync(r, s)
  PROVE  /\ r \in Gone(b) => r \in stopped' /\ Nowhere(r)'
         /\ r \notin Gone(b) => OnlyRunning(r, s)' \/ OnlyAsync(r, s)'
         /\ ~Nowhere(r)
<1>1. /\ TypeOK /\ stopped' = stopped /\ Y \cap stopped = {}
      /\ ActiveSlots' = ActiveSlots /\ s \in Slots
      /\ NotInDp(r)' /\ r \notin schedule'.collected /\ waiting_reqs' = waiting_reqs
      /\ \A i \in Ranks : <<i, b>> \in Slots
      /\ Ranks \subseteq 1..MaxDp
  BY StrategiesPool, Actives DEF PlacesInv, StrategiesStep, StrategyOf
<1>2. \A t \in Slots : t[1] \in 1..MaxDp
  BY DEF Slots
<1>3. /\ StrategiesMoved(b, A, R, Y, r)
      /\ r \in Gone(b) => r \in stopped
  BY StrategiesAssign DEF StrategiesStep, StrategyOf, Gone
<1>4. r \notin waiting_reqs' /\ NotInDp(r)
  BY <1>1 DEF OnlyRunning, OnlyAsync, OutOfPool
<1>5. CASE OnlyRunning(r, s)
  <2>1. ASSUME NEW t \in Slots
        PROVE  /\ r \in running_reqs'[t] <=> t = s /\ r \notin Gone(b) /\ r \notin Y
               /\ r \in async_recomputed_reqs'[t] <=> t = s /\ r \in Y
               /\ r \notin waiting_queue'[t] /\ r \notin decoding_queue'[t]
    <3>1. /\ r \notin waiting_queue[t] /\ r \notin decoding_queue[t]
          /\ r \notin async_recomputed_reqs[t] /\ r \notin dp_waiting_reqs[t[1]]
          /\ r \in running_reqs[t] <=> t = s
      BY <1>2, <1>4, <1>5 DEF OnlyRunning, NotIn, OnlyAt, NotInDp
    <3> QED BY <1>3, <3>1 DEF StrategiesMoved
  <2>2. r \in Gone(b) => Nowhere(r)'
    BY <1>1, <1>3, <1>4, <2>1 DEF Nowhere, NotInBatchStates, NotIn
  <2>3. r \in Y => OnlyAsync(r, s)'
    BY <1>1, <1>3, <1>4, <2>1 DEF OnlyAsync, OnlyAt, NotIn, OutOfPool
  <2>4. r \notin Y /\ r \notin Gone(b) => OnlyRunning(r, s)'
    BY <1>1, <1>4, <2>1 DEF OnlyRunning, OnlyAt, NotIn, OutOfPool
  <2>5. ~Nowhere(r)
    BY <1>1, <1>5 DEF Nowhere, NotInBatchStates, NotIn, OnlyRunning, OnlyAt
  <2> QED BY <1>1, <1>3, <2>2, <2>3, <2>4, <2>5
<1>6. CASE OnlyAsync(r, s)
  <2>1. ASSUME NEW t \in Slots
        PROVE  /\ r \notin running_reqs'[t]
               /\ r \in async_recomputed_reqs'[t] <=> t = s
               /\ r \notin waiting_queue'[t] /\ r \notin decoding_queue'[t]
    <3>1. /\ r \notin waiting_queue[t] /\ r \notin decoding_queue[t]
          /\ r \notin running_reqs[t] /\ r \notin dp_waiting_reqs[t[1]]
          /\ r \in async_recomputed_reqs[t] <=> t = s
      BY <1>2, <1>4, <1>6 DEF OnlyAsync, NotIn, OnlyAt, NotInDp
    <3> QED BY <1>3, <3>1 DEF StrategiesMoved
  <2>2. r \notin Gone(b)
    BY <1>1, <1>4, <1>6, GoneIs DEF OnlyAsync, NotIn, NotInDp
  <2>3. OnlyAsync(r, s)'
    BY <1>1, <1>4, <2>1 DEF OnlyAsync, OnlyAt, NotIn, OutOfPool
  <2>4. ~Nowhere(r)
    BY <1>1, <1>6 DEF Nowhere, NotInBatchStates, NotIn, OnlyAsync, OnlyAt
  <2> QED BY <2>2, <2>3, <2>4
<1> QED BY <1>5, <1>6

\* A Schedule of batch b.
LEMMA StrategiesPlaces ==
  ASSUME PlacesInv, NEW b \in Batches, NEW A, NEW R, NEW Y,
         StrategiesStep(b, A, R, Y), Finish(Gone(b))
  PROVE  PlacesOnly'
<1>1. TypeOK /\ stopped' = stopped
  BY DEF PlacesInv, StrategiesStep
<1>2. /\ Ranks' = Ranks /\ Batches' = Batches /\ ActiveSlots' = ActiveSlots
      /\ ScheduleInv'
      /\ \A r : ~OnlyCollected(r)
      /\ \A r : InFlight(r)' = InFlight(r)
  BY StrategiesPool
<1>3. ASSUME NEW r, InOnePlace(r)
      PROVE  /\ r \in Gone(b) => r \in stopped' /\ Nowhere(r)'
             /\ r \notin Gone(b) => InOnePlace(r)'
  <2>1. CASE OnlyArrived(r)
    <3>1. r \notin Gone(b) /\ OnlyArrived(r)'
      BY <2>1, StrategiesElsewhere
    <3> QED BY <3>1 DEF InOnePlace
  <2>2. CASE OnlyDp(r)
    BY <2>2, StrategiesWaiting
  <2>3. ASSUME NEW s \in ActiveSlots, s[2] # b,
               \/ OnlyWaiting(r, s) \/ OnlyDecoding(r, s)
               \/ OnlyRunning(r, s) \/ OnlyAsync(r, s)
        PROVE  r \notin Gone(b) /\ InOnePlace(r)'
    BY <1>2, <2>3, StrategiesOther DEF InOnePlace
  <2>4. ASSUME NEW s \in ActiveSlots, s[2] = b, OnlyWaiting(r, s)
        PROVE  /\ r \in Gone(b) => r \in stopped' /\ Nowhere(r)'
               /\ r \notin Gone(b) => InOnePlace(r)'
    BY <2>4, StrategiesWaiting
  <2>5. ASSUME NEW s \in ActiveSlots, s[2] = b, OnlyDecoding(r, s)
        PROVE  /\ r \in Gone(b) => r \in stopped' /\ Nowhere(r)'
               /\ r \notin Gone(b) => InOnePlace(r)'
    BY <2>5, StrategiesDecoding
  <2>6. ASSUME NEW s \in ActiveSlots, s[2] = b, OnlyRunning(r, s) \/ OnlyAsync(r, s)
        PROVE  /\ r \in Gone(b) => r \in stopped' /\ Nowhere(r)'
               /\ r \notin Gone(b) => InOnePlace(r)'
    <3>1. /\ r \in Gone(b) => r \in stopped' /\ Nowhere(r)'
          /\ r \notin Gone(b) => OnlyRunning(r, s)' \/ OnlyAsync(r, s)'
      BY <2>6, StrategiesRunning
    <3> QED BY <1>2, <3>1 DEF InOnePlace
  <2> QED BY <1>2, <1>3, <2>1, <2>2, <2>3, <2>4, <2>5, <2>6 DEF InOnePlace
<1>4. Moves(Gone(b))
  <2>1. \A r \in Requests : InOnePlace(r) \/ Nowhere(r)
    BY DEF PlacesInv, PlaceInv
  <2>2. \A r : Nowhere(r) => r \notin Gone(b) /\ Nowhere(r)'
    BY StrategiesElsewhere
  <2> QED BY <1>3, <2>1, <2>2 DEF Moves
<1>5. PlaceInv'
  <2>1. \A r \in Requests : status'[r] = IF r \in Gone(b) THEN "finished" ELSE status[r]
    BY DEF Finish
  <2> QED BY <1>1, <1>4, <2>1, MovesKeepPlaces DEF PlacesInv
<1>6. FlightInv'
  <2>1. ASSUME NEW c \in Batches', NEW r \in InFlight(c)'
        PROVE  \E i \in Ranks' : (OnlyRunning(r, <<i, c>>) \/ OnlyAsync(r, <<i, c>>))'
    <3>1. c \in Batches /\ r \in InFlight(c)
      BY <1>2, <2>1
    <3>2. PICK i \in Ranks : OnlyRunning(r, <<i, c>>) \/ OnlyAsync(r, <<i, c>>)
      BY <3>1 DEF PlacesInv, FlightInv
    <3>3. <<i, c>> \in ActiveSlots
      BY <1>1, <3>1, Actives
    <3>4. CASE c # b
      BY <1>2, <3>2, <3>3, <3>4, StrategiesOther
    <3>5. CASE c = b
      <4>1. r \notin Gone(b)
        BY <3>1, <3>5 DEF Gone
      <4> QED BY <1>2, <3>2, <3>3, <3>5, <4>1, StrategiesRunning
    <3> QED BY <3>4, <3>5
  <2> QED BY <2>1 DEF FlightInv
<1> QED BY <1>2, <1>5, <1>6 DEF PlacesOnly

-----------------------------------------------------------------------------
(***************************************************************************)
(* Where a launch and a result put the requests.                           *)
(***************************************************************************)

\* A request of a batch, or taken out of it, is nowhere else.
LEMMA BatchPlaces ==
  ASSUME PlacesInv, NEW b \in Batches, NEW r
  PROVE  /\ r \in InBatch(running_reqs, b) =>
              r \in Requests /\ \E i \in Ranks : OnlyRunning(r, <<i, b>>)
         /\ r \in InBatch(async_recomputed_reqs, b) =>
              r \in Requests /\ \E i \in Ranks : OnlyAsync(r, <<i, b>>)
<1>1. TypeOK /\ \A q \in Requests : InOnePlace(q) \/ Nowhere(q)
  BY DEF PlacesInv, PlaceInv
<1>2. /\ \A i \in Ranks : <<i, b>> \in Slots
      /\ \A s \in ActiveSlots : s \in Slots /\ s[1] \in Ranks /\ s = <<s[1], s[2]>>
  BY <1>1, Actives
<1>3. ASSUME NEW i \in Ranks, r \in running_reqs[<<i, b>>]
      PROVE  r \in Requests /\ OnlyRunning(r, <<i, b>>)
  <2>1. r \in Requests
    BY <1>1, <1>2, <1>3, QueueTypes
  <2>2. ~NotIn(running_reqs, r)
    BY <1>2, <1>3 DEF NotIn
  <2>3. \E s \in ActiveSlots : OnlyRunning(r, s)
    BY <1>1, <2>1, <2>2 DEF InOnePlace, Nowhere, OnlyArrived, OnlyCollected, OnlyDp,
       NotInBatchStates, OnlyWaiting, OnlyDecoding, OnlyAsync
  <2>4. PICK s \in ActiveSlots : OnlyRunning(r, s)
    BY <2>3
  <2>5. s = <<i, b>>
    BY <1>2, <1>3, <2>4 DEF OnlyRunning, OnlyAt
  <2> QED BY <2>1, <2>4, <2>5
<1>4. ASSUME NEW i \in Ranks, r \in async_recomputed_reqs[<<i, b>>]
      PROVE  r \in Requests /\ OnlyAsync(r, <<i, b>>)
  <2>1. r \in Requests
    BY <1>1, <1>2, <1>4, QueueTypes
  <2>2. ~NotIn(async_recomputed_reqs, r)
    BY <1>2, <1>4 DEF NotIn
  <2>3. \E s \in ActiveSlots : OnlyAsync(r, s)
    BY <1>1, <2>1, <2>2 DEF InOnePlace, Nowhere, OnlyArrived, OnlyCollected, OnlyDp,
       NotInBatchStates, OnlyWaiting, OnlyDecoding, OnlyRunning
  <2>4. PICK s \in ActiveSlots : OnlyAsync(r, s)
    BY <2>3
  <2>5. s = <<i, b>>
    BY <1>2, <1>4, <2>4 DEF OnlyAsync, OnlyAt
  <2> QED BY <2>1, <2>4, <2>5
<1> QED BY <1>3, <1>4, InBatchIs

\* What is under way after a launch.
LEMMA LaunchFlight ==
  ASSUME TypeOK, NEW b \in Batches, TryToLaunchPlannedScheduleOutput(b), NEW c \in Batches
  PROVE  InFlight(c)' \subseteq InFlight(c) \cup (IF c = b THEN Launching(b) ELSE {})
<1>1. outputs' = [outputs EXCEPT ![b] = Append(@, Launching(b))] \/ outputs' = outputs
  BY DEF TryToLaunchPlannedScheduleOutput
<1>2. /\ outputs \in [1..MaxPp -> Seq(SUBSET Requests)]
      /\ b \in 1..MaxPp /\ c \in 1..MaxPp
  BY Actives DEF TypeOK
<1>3. CASE outputs' = outputs
  BY <1>3 DEF InFlight
<1>4. CASE outputs' = [outputs EXCEPT ![b] = Append(@, Launching(b))]
  <2>1. outputs'[c] = IF c = b THEN Append(outputs[b], Launching(b)) ELSE outputs[c]
    BY <1>2, <1>4
  <2>2. outputs[b] \in Seq(SUBSET Requests)
    BY <1>2
  <2> DEFINE L == Launching(b)
  <2> HIDE DEF L
  <2>3. ASSUME NEW n \in DOMAIN Append(outputs[b], L)
        PROVE  \/ Append(outputs[b], L)[n] = L
               \/ n \in DOMAIN outputs[b] /\ Append(outputs[b], L)[n] = outputs[b][n]
    <3>1. /\ Len(outputs[b]) \in Nat /\ DOMAIN outputs[b] = 1..Len(outputs[b])
          /\ n \in 1..Len(outputs[b]) + 1
      BY <2>2, <2>3
    <3>2. CASE n = Len(outputs[b]) + 1
      BY <2>2, <3>1, <3>2
    <3>3. CASE n \in 1..Len(outputs[b])
      BY <2>2, <3>1, <3>3
    <3> QED BY <3>1, <3>2, <3>3
  <2> QED BY <2>1, <2>3 DEF InFlight, L
<1> QED BY <1>1, <1>3, <1>4

\* A launch takes the stopped requests out of the batch.
LEMMA LaunchPlaces ==
  ASSUME PlacesInv, NEW b \in Batches, TryToLaunchPlannedScheduleOutput(b)
  PROVE  PlacesOnly'
<1> DEFINE S == StoppedReqs(b)
<1>1. /\ running_reqs' = Without(running_reqs, S)
      /\ Finish(S)
      /\ UNCHANGED <<config, stopped, waiting_reqs, dp_waiting_reqs, waiting_queue,
                     decoding_queue, async_recomputed_reqs, schedule>>
  BY DEF TryToLaunchPlannedScheduleOutput
<1>2. TypeOK /\ ScheduleInv'
  BY <1>1 DEF PlacesInv, ScheduleInv
<1>3. Ranks' = Ranks /\ Batches' = Batches /\ ActiveSlots' = ActiveSlots
  BY <1>1 DEF Ranks, Batches, ActiveSlots
<1>4. ASSUME NEW r, NEW t \in Slots
      PROVE  r \in running_reqs'[t] <=> r \in running_reqs[t] /\ r \notin S
  BY <1>1 DEF Without
<1>5. \A r \in S : r \in stopped' /\ r \in InBatch(running_reqs, b) /\ r \notin InFlight(b)
  BY <1>1 DEF StoppedReqs
<1> HIDE DEF S
<1>6. ASSUME NEW r \in S
      PROVE  Nowhere(r)' /\ ~Nowhere(r)
  <2>1. PICK i \in Ranks : OnlyRunning(r, <<i, b>>)
    BY <1>5, BatchPlaces
  <2>2. NotIn(running_reqs, r)'
    BY <1>4 DEF NotIn
  <2>3. Nowhere(r)'
    BY <1>1, <2>1, <2>2 DEF OnlyRunning, Nowhere, NotInBatchStates, NotIn, OutOfPool,
                            NotInDp
  <2>4. ~Nowhere(r)
    BY <1>2, <2>1, Actives DEF OnlyRunning, OnlyAt, Nowhere, NotInBatchStates, NotIn
  <2> QED BY <2>3, <2>4
<1>7. ASSUME NEW r, r \notin S
      PROVE  /\ Nowhere(r) => Nowhere(r)'
             /\ InOnePlace(r) => InOnePlace(r)'
             /\ \A s : /\ OnlyRunning(r, s) => OnlyRunning(r, s)'
                       /\ OnlyAsync(r, s) => OnlyAsync(r, s)'
  <2>1. /\ NotIn(running_reqs, r)' <=> NotIn(running_reqs, r)
        /\ \A s : OnlyAt(running_reqs, s, r)' <=> OnlyAt(running_reqs, s, r)
    BY <1>4, <1>7 DEF NotIn, OnlyAt
  <2>2. /\ NotIn(waiting_queue, r)' <=> NotIn(waiting_queue, r)
        /\ NotIn(decoding_queue, r)' <=> NotIn(decoding_queue, r)
        /\ NotIn(async_recomputed_reqs, r)' <=> NotIn(async_recomputed_reqs, r)
        /\ OutOfPool(r)' <=> OutOfPool(r)
        /\ NotInDp(r)' <=> NotInDp(r)
    BY <1>1 DEF NotIn, OutOfPool, NotInDp
  <2>3. \A s : /\ OnlyAt(waiting_queue, s, r)' <=> OnlyAt(waiting_queue, s, r)
               /\ OnlyAt(decoding_queue, s, r)' <=> OnlyAt(decoding_queue, s, r)
               /\ OnlyAt(async_recomputed_reqs, s, r)'
                    <=> OnlyAt(async_recomputed_reqs, s, r)
    BY <1>1 DEF OnlyAt
  <2>4. NotInBatchStates(r)' <=> NotInBatchStates(r)
    BY <2>1, <2>2 DEF NotInBatchStates
  <2>5. \A s : /\ OnlyWaiting(r, s) => OnlyWaiting(r, s)'
               /\ OnlyDecoding(r, s) => OnlyDecoding(r, s)'
               /\ OnlyRunning(r, s) => OnlyRunning(r, s)'
               /\ OnlyAsync(r, s) => OnlyAsync(r, s)'
    BY <2>1, <2>2, <2>3 DEF OnlyWaiting, OnlyDecoding, OnlyRunning, OnlyAsync
  <2>6. /\ Nowhere(r) => Nowhere(r)'
        /\ OnlyArrived(r) => OnlyArrived(r)'
        /\ OnlyCollected(r) => OnlyCollected(r)'
        /\ OnlyDp(r) => OnlyDp(r)'
    BY <1>1, <1>3, <2>2, <2>4 DEF Nowhere, OnlyArrived, OnlyCollected, OnlyDp
  <2> QED BY <1>3, <2>5, <2>6 DEF InOnePlace
<1>8. Moves(S)
  BY <1>5, <1>6, <1>7 DEF Moves
<1>9. PlaceInv'
  <2>1. \A r \in Requests : status'[r] = IF r \in S THEN "finished" ELSE status[r]
    BY <1>1 DEF Finish
  <2> QED BY <1>1, <1>8, <2>1, MovesKeepPlaces DEF PlacesInv
<1>10. FlightInv'
  <2>1. ASSUME NEW c \in Batches', NEW r \in InFlight(c)'
        PROVE  \E i \in Ranks' : (OnlyRunning(r, <<i, c>>) \/ OnlyAsync(r, <<i, c>>))'
    <3>1. /\ c \in Batches
          /\ r \in InFlight(c) \/ (c = b /\ r \in Launching(b))
      BY <1>2, <1>3, <2>1, LaunchFlight
    <3>2. PICK i \in Ranks : OnlyRunning(r, <<i, c>>) \/ OnlyAsync(r, <<i, c>>)
      BY <3>1, BatchPlaces DEF PlacesInv, FlightInv, Launching
    <3>3. <<i, c>> \in ActiveSlots /\ <<i, c>> \in Slots
      BY <1>2, <3>1, Actives
    <3>4. r \notin S
      <4>1. SUFFICES ASSUME r \in S PROVE FALSE
        OBVIOUS
      <4>2. PICK k \in Ranks : OnlyRunning(r, <<k, b>>)
        BY <1>5, <4>1, BatchPlaces
      <4>3. <<k, b>> = <<i, c>>
        <5>1. <<k, b>> \in Slots
          BY <1>2, Actives
        <5> QED BY <3>2, <3>3, <4>2, <5>1 DEF OnlyRunning, OnlyAsync, OnlyAt, NotIn
      <4>4. r \in Launching(b) /\ r \in stopped'
        BY <1>5, <3>1, <4>1, <4>3
      <4> QED BY <1>1, <4>4 DEF Launching
    <3> QED BY <1>3, <1>7, <3>2, <3>4
  <2> QED BY <2>1 DEF FlightInv
<1> QED BY <1>2, <1>9, <1>10 DEF PlacesOnly

\* The local variables of UpdateWithGenerationResult.
Back(b) == Head(outputs[b])
Rest(b) == Tail(outputs[b])
Alive(b) == Back(b) \ stopped
Ended(b) == {r \in Alive(b) : steps_left[r] = 1}
Drained(b) == {r \in Back(b) : \A n \in DOMAIN Rest(b) : r \notin Rest(b)[n]}
GoneBack(b) == Drained(b) \cap (stopped \cup Ended(b))
IdleBack(b) == IF loop[b] = "launch" THEN {} ELSE Drained(b) \ GoneBack(b)
Taken(b) == InBatch(async_recomputed_reqs, b) \cap (Drained(b) \ GoneBack(b))

\* What a result that comes back assigns, with the requests it recovers.
UpdateAssigns(b, recovered) ==
  LET In(s, S) == IF s[2] = b THEN S ELSE {}
  IN  /\ recovered \subseteq Taken(b)
      /\ outputs[b] # <<>> /\ outputs' = [outputs EXCEPT ![b] = Rest(b)]
      /\ stopped' = stopped \cup Ended(b)
      /\ running_reqs' = [s \in Slots |-> running_reqs[s] \ In(s, IdleBack(b) \cup GoneBack(b))]
      /\ decoding_queue' = [s \in Slots |-> decoding_queue[s]
           \cup In(s, (running_reqs[s] \cap IdleBack(b))
                        \cup (async_recomputed_reqs[s] \cap recovered))]
      /\ waiting_queue' = [s \in Slots |-> waiting_queue[s]
           \cup In(s, async_recomputed_reqs[s] \cap (Taken(b) \ recovered))]
      /\ async_recomputed_reqs' =
           [s \in Slots |-> async_recomputed_reqs[s] \ In(s, Taken(b) \cup GoneBack(b))]
      /\ Finish(GoneBack(b))
      /\ kv_cached' = (kv_cached \cup Alive(b)) \ (GoneBack(b) \cup (Taken(b) \ recovered))
      /\ resources' = resources \ (GoneBack(b) \cup (Taken(b) \ recovered))
      /\ UNCHANGED <<config, waiting_reqs, dp_waiting_reqs, loop, schedule,
                     live_req_ids>>

\* A result assigns so.
LEMMA UpdateSays ==
  ASSUME NEW b, UpdateWithGenerationResult(b)
  PROVE  \E recovered : UpdateAssigns(b, recovered)
<1>1. /\ outputs[b] # <<>>
      /\ UNCHANGED <<config, waiting_reqs, dp_waiting_reqs, loop, schedule,
                     live_req_ids>>
  BY DEF UpdateWithGenerationResult
<1> DEFINE In(s, S) == IF s[2] = b THEN S ELSE {}
<1>2. \E recovered \in SUBSET Taken(b) :
        /\ outputs' = [outputs EXCEPT ![b] = Rest(b)]
        /\ stopped' = stopped \cup Ended(b)
        /\ running_reqs' = [s \in Slots |-> running_reqs[s] \ In(s, IdleBack(b) \cup GoneBack(b))]
        /\ decoding_queue' = [s \in Slots |-> decoding_queue[s]
             \cup In(s, (running_reqs[s] \cap IdleBack(b))
                          \cup (async_recomputed_reqs[s] \cap recovered))]
        /\ waiting_queue' = [s \in Slots |-> waiting_queue[s]
             \cup In(s, async_recomputed_reqs[s] \cap (Taken(b) \ recovered))]
        /\ async_recomputed_reqs' =
             [s \in Slots |-> async_recomputed_reqs[s] \ In(s, Taken(b) \cup GoneBack(b))]
        /\ Finish(GoneBack(b))
        /\ kv_cached' = (kv_cached \cup Alive(b)) \ (GoneBack(b) \cup (Taken(b) \ recovered))
        /\ resources' = resources \ (GoneBack(b) \cup (Taken(b) \ recovered))
  BY Zenon DEF UpdateWithGenerationResult, Taken, IdleBack, GoneBack, Drained, Ended,
               Alive, Rest, Back
<1>3. PICK recovered \in SUBSET Taken(b) :
        /\ outputs' = [outputs EXCEPT ![b] = Rest(b)]
        /\ stopped' = stopped \cup Ended(b)
        /\ running_reqs' = [s \in Slots |-> running_reqs[s] \ In(s, IdleBack(b) \cup GoneBack(b))]
        /\ decoding_queue' = [s \in Slots |-> decoding_queue[s]
             \cup In(s, (running_reqs[s] \cap IdleBack(b))
                          \cup (async_recomputed_reqs[s] \cap recovered))]
        /\ waiting_queue' = [s \in Slots |-> waiting_queue[s]
             \cup In(s, async_recomputed_reqs[s] \cap (Taken(b) \ recovered))]
        /\ async_recomputed_reqs' =
             [s \in Slots |-> async_recomputed_reqs[s] \ In(s, Taken(b) \cup GoneBack(b))]
        /\ Finish(GoneBack(b))
        /\ kv_cached' = (kv_cached \cup Alive(b)) \ (GoneBack(b) \cup (Taken(b) \ recovered))
        /\ resources' = resources \ (GoneBack(b) \cup (Taken(b) \ recovered))
  BY <1>2
<1>4. recovered \subseteq Taken(b)
  OBVIOUS
<1>5. UpdateAssigns(b, recovered)
  BY <1>1, <1>3, <1>4, Zenon DEF UpdateAssigns
<1> QED BY <1>5

\* What comes back was under way, and what is still under way was too.
LEMMA UpdateFlight ==
  ASSUME TypeOK, NEW b \in Batches, NEW recovered, UpdateAssigns(b, recovered)
  PROVE  /\ Back(b) \subseteq InFlight(b)
         /\ \A c \in Batches : InFlight(c)' \subseteq InFlight(c)
         /\ \A r \in InFlight(b)' : r \notin Drained(b)
         /\ Drained(b) \subseteq Back(b)
<1>1. /\ outputs[b] \in Seq(SUBSET Requests) /\ outputs[b] # <<>>
      /\ outputs' = [outputs EXCEPT ![b] = Rest(b)]
      /\ outputs \in [1..MaxPp -> Seq(SUBSET Requests)]
      /\ b \in 1..MaxPp /\ Batches \subseteq 1..MaxPp
  BY OutputTypes, Actives DEF UpdateAssigns, TypeOK
<1>2. Len(outputs[b]) >= 1 /\ Len(outputs[b]) \in Nat
  BY <1>1
<1>3. Back(b) = outputs[b][1] /\ 1 \in DOMAIN outputs[b]
  BY <1>1, <1>2 DEF Back
<1>4. Back(b) \subseteq InFlight(b)
  BY <1>3 DEF InFlight
<1>5. \A n \in DOMAIN Rest(b) : n + 1 \in DOMAIN outputs[b] /\ Rest(b)[n] = outputs[b][n + 1]
  BY <1>1, <1>2 DEF Rest
<1>6. \A c \in Batches : outputs'[c] = IF c = b THEN Rest(b) ELSE outputs[c]
  BY <1>1
<1>7. ASSUME NEW c \in Batches PROVE InFlight(c)' \subseteq InFlight(c)
  <2>1. CASE c = b
    <3>1. InFlight(c)' = UNION {Rest(b)[n] : n \in DOMAIN Rest(b)}
      BY <1>6, <2>1 DEF InFlight
    <3> QED BY <1>5, <2>1, <3>1 DEF InFlight
  <2>2. CASE c # b
    BY <1>6, <2>2 DEF InFlight
  <2> QED BY <2>1, <2>2
<1>8. ASSUME NEW r \in InFlight(b)' PROVE r \notin Drained(b)
  <2>1. InFlight(b)' = UNION {Rest(b)[n] : n \in DOMAIN Rest(b)}
    BY <1>6 DEF InFlight
  <2> QED BY <2>1 DEF Drained
<1> QED BY <1>4, <1>7, <1>8 DEF Drained

\* Where r is after the result.
UpdateMoved(b, recovered, r) ==
  \A t \in Slots :
    LET here == t[2] = b
    IN  /\ r \in running_reqs'[t] <=>
             r \in running_reqs[t] /\ ~(here /\ (r \in IdleBack(b) \/ r \in GoneBack(b)))
        /\ r \in decoding_queue'[t] <=>
             \/ r \in decoding_queue[t]
             \/ here /\ r \in running_reqs[t] /\ r \in IdleBack(b)
             \/ here /\ r \in async_recomputed_reqs[t] /\ r \in recovered
        /\ r \in waiting_queue'[t] <=>
             \/ r \in waiting_queue[t]
             \/ /\ here /\ r \in async_recomputed_reqs[t]
                /\ r \in Taken(b) /\ r \notin recovered
        /\ r \in async_recomputed_reqs'[t] <=>
             /\ r \in async_recomputed_reqs[t]
             /\ ~(here /\ (r \in Taken(b) \/ r \in GoneBack(b)))

\* The assignments of the result, request by request.
LEMMA UpdateMoves ==
  ASSUME NEW b, NEW recovered, UpdateAssigns(b, recovered), NEW r
  PROVE  UpdateMoved(b, recovered, r)
<1> HIDE DEF Slots, Taken, IdleBack, GoneBack
<1>1. ASSUME NEW t \in Slots, t[2] = b
      PROVE  /\ running_reqs'[t] = running_reqs[t] \ (IdleBack(b) \cup GoneBack(b))
             /\ decoding_queue'[t] = decoding_queue[t]
                  \cup ((running_reqs[t] \cap IdleBack(b))
                          \cup (async_recomputed_reqs[t] \cap recovered))
             /\ waiting_queue'[t] = waiting_queue[t]
                  \cup (async_recomputed_reqs[t] \cap (Taken(b) \ recovered))
             /\ async_recomputed_reqs'[t] =
                  async_recomputed_reqs[t] \ (Taken(b) \cup GoneBack(b))
  BY <1>1 DEF UpdateAssigns
<1>2. ASSUME NEW t \in Slots, t[2] # b
      PROVE  /\ r \in running_reqs'[t] <=> r \in running_reqs[t]
             /\ r \in decoding_queue'[t] <=> r \in decoding_queue[t]
             /\ r \in waiting_queue'[t] <=> r \in waiting_queue[t]
             /\ r \in async_recomputed_reqs'[t] <=> r \in async_recomputed_reqs[t]
  BY <1>2 DEF UpdateAssigns
<1> QED BY <1>1, <1>2 DEF UpdateMoved

\* A request whose newest step is not back does not move.
LEMMA UpdateOther ==
  ASSUME PlacesInv, NEW b \in Batches, NEW recovered, UpdateAssigns(b, recovered),
         NEW r, r \notin Drained(b)
  PROVE  /\ r \notin GoneBack(b) /\ r \notin Taken(b)
         /\ Nowhere(r) => Nowhere(r)'
         /\ InOnePlace(r) => InOnePlace(r)'
         /\ \A s : /\ OnlyDecoding(r, s) => OnlyDecoding(r, s)'
                   /\ OnlyRunning(r, s) => OnlyRunning(r, s)'
                   /\ OnlyAsync(r, s) => OnlyAsync(r, s)'
         /\ \A s \in Slots :
              /\ r \in running_reqs'[s] <=> r \in running_reqs[s]
              /\ r \in decoding_queue'[s] <=> r \in decoding_queue[s]
              /\ r \in async_recomputed_reqs'[s] <=> r \in async_recomputed_reqs[s]
<1>1. /\ r \notin GoneBack(b) /\ r \notin IdleBack(b) /\ r \notin Taken(b)
      /\ r \notin recovered
  BY DEF GoneBack, IdleBack, Taken, UpdateAssigns
<1>2. UpdateMoved(b, recovered, r)
  BY UpdateMoves
<1>3. \A t \in Slots :
        /\ r \in running_reqs'[t] <=> r \in running_reqs[t]
        /\ r \in decoding_queue'[t] <=> r \in decoding_queue[t]
        /\ r \in waiting_queue'[t] <=> r \in waiting_queue[t]
        /\ r \in async_recomputed_reqs'[t] <=> r \in async_recomputed_reqs[t]
  BY <1>1, <1>2 DEF UpdateMoved
<1>4. UNCHANGED <<config, waiting_reqs, dp_waiting_reqs, schedule>>
  BY DEF UpdateAssigns
<1>5. Ranks' = Ranks /\ Batches' = Batches
  BY <1>4 DEF Ranks, Batches
<1>6. ActiveSlots' = ActiveSlots
  BY <1>5 DEF ActiveSlots
<1>7. /\ NotIn(running_reqs, r)' <=> NotIn(running_reqs, r)
      /\ NotIn(waiting_queue, r)' <=> NotIn(waiting_queue, r)
      /\ NotIn(decoding_queue, r)' <=> NotIn(decoding_queue, r)
      /\ NotIn(async_recomputed_reqs, r)' <=> NotIn(async_recomputed_reqs, r)
  BY <1>3 DEF NotIn
<1>8. \A s : /\ OnlyAt(running_reqs, s, r)' <=> OnlyAt(running_reqs, s, r)
             /\ OnlyAt(waiting_queue, s, r)' <=> OnlyAt(waiting_queue, s, r)
             /\ OnlyAt(decoding_queue, s, r)' <=> OnlyAt(decoding_queue, s, r)
             /\ OnlyAt(async_recomputed_reqs, s, r)'
                  <=> OnlyAt(async_recomputed_reqs, s, r)
  BY <1>3 DEF OnlyAt
<1>9. /\ OutOfPool(r)' <=> OutOfPool(r)
      /\ NotInDp(r)' <=> NotInDp(r)
      /\ NotInBatchStates(r)' <=> NotInBatchStates(r)
  BY <1>4, <1>7 DEF OutOfPool, NotInDp, NotInBatchStates
<1>10. \A s : /\ OnlyWaiting(r, s) => OnlyWaiting(r, s)'
              /\ OnlyDecoding(r, s) => OnlyDecoding(r, s)'
              /\ OnlyRunning(r, s) => OnlyRunning(r, s)'
              /\ OnlyAsync(r, s) => OnlyAsync(r, s)'
  BY <1>7, <1>8, <1>9 DEF OnlyWaiting, OnlyDecoding, OnlyRunning, OnlyAsync
<1>11. /\ Nowhere(r) => Nowhere(r)'
       /\ OnlyArrived(r) => OnlyArrived(r)'
       /\ OnlyCollected(r) => OnlyCollected(r)'
       /\ OnlyDp(r) => OnlyDp(r)'
  BY <1>4, <1>5, <1>9 DEF Nowhere, OnlyArrived, OnlyCollected, OnlyDp
<1>12. InOnePlace(r) => InOnePlace(r)'
  BY <1>6, <1>10, <1>11 DEF InOnePlace
<1> QED BY <1>1, <1>3, <1>10, <1>11, <1>12

\* A request whose newest step is back is in the batch, or was taken out of it.
LEMMA DrainedSlot ==
  ASSUME PlacesInv, NEW b \in Batches, NEW recovered, UpdateAssigns(b, recovered),
         NEW r \in Drained(b)
  PROVE  \E i \in Ranks : OnlyRunning(r, <<i, b>>) \/ OnlyAsync(r, <<i, b>>)
<1>1. r \in InFlight(b)
  BY UpdateFlight DEF PlacesInv
<1> QED BY <1>1 DEF PlacesInv, FlightInv

\* A request whose newest step is back leaves for good, waits for its next step
\* or stays in the batch, or, taken out, is recovered or waits for blocks again.
LEMMA UpdateDrained ==
  ASSUME PlacesInv, NEW b \in Batches, NEW recovered, UpdateAssigns(b, recovered),
         NEW r \in Drained(b)
  PROVE  \E i \in Ranks :
           LET s == <<i, b>>
           IN  /\ OnlyRunning(r, s) \/ OnlyAsync(r, s)
               /\ r \in GoneBack(b) => r \in stopped' /\ Nowhere(r)'
               /\ r \notin GoneBack(b) =>
                    \/ OnlyDecoding(r, s)' \/ OnlyRunning(r, s)'
                    \/ r \in Taken(b) \ recovered /\ OnlyWaiting(r, s)'
<1>1. TypeOK /\ \A q \in Requests : InOnePlace(q) \/ Nowhere(q)
  BY DEF PlacesInv, PlaceInv
<1>3. PICK i \in Ranks : OnlyRunning(r, <<i, b>>) \/ OnlyAsync(r, <<i, b>>)
  BY DrainedSlot
<1> DEFINE s == <<i, b>>
<1>4. s \in ActiveSlots /\ s \in Slots /\ s[2] = b
  BY <1>1, Actives
<1> HIDE DEF s
<1>5. /\ UpdateMoved(b, recovered, r)
      /\ UNCHANGED <<waiting_reqs, dp_waiting_reqs, schedule>>
      /\ stopped' = stopped \cup Ended(b) /\ recovered \subseteq Taken(b)
  BY UpdateMoves DEF UpdateAssigns
<1>6. OutOfPool(r) /\ OutOfPool(r)'
  BY <1>3, <1>5 DEF OnlyRunning, OnlyAsync, OutOfPool, NotInDp
<1>7. /\ r \in IdleBack(b) => r \notin GoneBack(b)
      /\ r \in Taken(b) => r \notin GoneBack(b)
      /\ r \in GoneBack(b) => r \in stopped'
  BY <1>5 DEF IdleBack, Taken, GoneBack
<1>8. CASE OnlyRunning(r, s)
  <2>1. \A t \in Slots : /\ r \notin waiting_queue[t] /\ r \notin decoding_queue[t]
                         /\ r \notin async_recomputed_reqs[t]
                         /\ r \in running_reqs[t] <=> t = s
    BY <1>8 DEF OnlyRunning, NotIn, OnlyAt
  <2>2. ASSUME NEW t \in Slots
        PROVE  /\ r \notin waiting_queue'[t] /\ r \notin async_recomputed_reqs'[t]
               /\ r \in decoding_queue'[t] <=> t = s /\ r \in IdleBack(b)
               /\ r \in running_reqs'[t] <=>
                    t = s /\ r \notin IdleBack(b) /\ r \notin GoneBack(b)
    BY <1>4, <1>5, <2>1 DEF UpdateMoved
  <2>3. r \in GoneBack(b) => Nowhere(r)'
    BY <1>6, <1>7, <2>2 DEF Nowhere, NotInBatchStates, NotIn, OutOfPool
  <2>4. r \in IdleBack(b) => OnlyDecoding(r, s)'
    BY <1>4, <1>6, <1>7, <2>2 DEF OnlyDecoding, NotIn, OnlyAt
  <2>5. r \notin IdleBack(b) /\ r \notin GoneBack(b) => OnlyRunning(r, s)'
    BY <1>4, <1>6, <2>2 DEF OnlyRunning, NotIn, OnlyAt
  <2> QED BY <1>3, <1>7, <2>3, <2>4, <2>5 DEF s
<1>9. CASE OnlyAsync(r, s)
  <2>1. \A t \in Slots : /\ r \notin waiting_queue[t] /\ r \notin decoding_queue[t]
                         /\ r \notin running_reqs[t]
                         /\ r \in async_recomputed_reqs[t] <=> t = s
    BY <1>9 DEF OnlyAsync, NotIn, OnlyAt
  <2>2. r \in Taken(b) <=> r \notin GoneBack(b)
    <3>1. r \in InBatch(async_recomputed_reqs, b)
      BY <1>1, <1>4, <1>9, InBatchAt DEF OnlyAsync
    <3> QED BY <3>1 DEF Taken
  <2>3. ASSUME NEW t \in Slots
        PROVE  /\ r \notin running_reqs'[t]
               /\ r \in async_recomputed_reqs'[t] <=>
                    t = s /\ r \notin Taken(b) /\ r \notin GoneBack(b)
               /\ r \in decoding_queue'[t] <=> t = s /\ r \in recovered
               /\ r \in waiting_queue'[t] <=>
                    t = s /\ r \in Taken(b) /\ r \notin recovered
    BY <1>4, <1>5, <2>1 DEF UpdateMoved
  <2>4. r \in GoneBack(b) => Nowhere(r)'
    BY <1>5, <1>6, <2>2, <2>3 DEF Nowhere, NotInBatchStates, NotIn, OutOfPool
  <2>5. r \in recovered => OnlyDecoding(r, s)'
    BY <1>4, <1>5, <1>6, <2>2, <2>3 DEF OnlyDecoding, NotIn, OnlyAt
  <2>6. r \in Taken(b) /\ r \notin recovered => OnlyWaiting(r, s)'
    BY <1>4, <1>6, <2>2, <2>3 DEF OnlyWaiting, NotIn, OnlyAt
  <2> QED BY <1>3, <1>7, <2>2, <2>4, <2>5, <2>6 DEF s
<1> QED BY <1>3, <1>8, <1>9 DEF s

\* A result comes back to batch b.
LEMMA UpdatePlaces ==
  ASSUME PlacesInv, NEW b \in Batches, NEW recovered, UpdateAssigns(b, recovered)
  PROVE  PlacesOnly'
<1>1. /\ TypeOK /\ stopped \subseteq stopped'
      /\ UNCHANGED <<config, schedule>> /\ Finish(GoneBack(b))
  BY DEF PlacesInv, UpdateAssigns
<1>2. Ranks' = Ranks /\ Batches' = Batches /\ ActiveSlots' = ActiveSlots
  BY <1>1 DEF Ranks, Batches, ActiveSlots
<1>3. ScheduleInv'
  BY <1>1 DEF PlacesInv, ScheduleInv
<1>4. ASSUME NEW r \in Drained(b)
      PROVE  /\ r \in GoneBack(b) => r \in stopped' /\ Nowhere(r)'
             /\ r \notin GoneBack(b) => InOnePlace(r)'
             /\ ~Nowhere(r)
  <2>1. PICK i \in Ranks :
          LET s == <<i, b>>
          IN  /\ OnlyRunning(r, s) \/ OnlyAsync(r, s)
              /\ r \in GoneBack(b) => r \in stopped' /\ Nowhere(r)'
              /\ r \notin GoneBack(b) =>
                   \/ OnlyDecoding(r, s)' \/ OnlyRunning(r, s)'
                   \/ r \in Taken(b) \ recovered /\ OnlyWaiting(r, s)'
    BY UpdateDrained
  <2>2. <<i, b>> \in ActiveSlots
    BY <1>1, Actives
  <2>3. ~Nowhere(r)
    BY <1>1, <2>1, <2>2, OnePlaceOnly DEF InOnePlace
  <2>4. r \notin GoneBack(b) => InOnePlace(r)'
    BY <1>2, <2>1, <2>2 DEF InOnePlace
  <2> QED BY <2>1, <2>3, <2>4
<1>5. Moves(GoneBack(b))
  <2>1. \A r : r \notin Drained(b) => /\ r \notin GoneBack(b)
                                      /\ Nowhere(r) => Nowhere(r)'
                                      /\ InOnePlace(r) => InOnePlace(r)'
    BY UpdateOther
  <2> QED BY <1>4, <2>1 DEF Moves
<1>6. PlaceInv'
  <2>1. \A r \in Requests : status'[r] = IF r \in GoneBack(b) THEN "finished" ELSE status[r]
    BY <1>1 DEF Finish
  <2> QED BY <1>1, <1>5, <2>1, MovesKeepPlaces DEF PlacesInv
<1>7. FlightInv'
  <2>1. ASSUME NEW c \in Batches', NEW r \in InFlight(c)'
        PROVE  \E i \in Ranks' : (OnlyRunning(r, <<i, c>>) \/ OnlyAsync(r, <<i, c>>))'
    <3>1. c \in Batches /\ r \in InFlight(c)
      BY <1>1, <1>2, <2>1, UpdateFlight
    <3>2. PICK i \in Ranks : OnlyRunning(r, <<i, c>>) \/ OnlyAsync(r, <<i, c>>)
      BY <3>1 DEF PlacesInv, FlightInv
    <3>3. r \notin Drained(b)
      <4>1. SUFFICES ASSUME r \in Drained(b) PROVE FALSE
        OBVIOUS
      <4>2. c # b
        BY <1>1, <2>1, <4>1, UpdateFlight
      <4>3. PICK k \in Ranks : OnlyRunning(r, <<k, b>>) \/ OnlyAsync(r, <<k, b>>)
        BY <4>1, DrainedSlot
      <4>4. <<i, c>> \in Slots /\ <<k, b>> \in Slots
        BY <1>1, <3>1, Actives
      <4>5. <<i, c>> = <<k, b>>
        BY <3>2, <4>3, <4>4 DEF OnlyRunning, OnlyAsync, OnlyAt, NotIn
      <4> QED BY <4>2, <4>5
    <3>4. OnlyRunning(r, <<i, c>>)' \/ OnlyAsync(r, <<i, c>>)'
      BY <3>2, <3>3, UpdateOther
    <3> QED BY <1>2, <3>4
  <2> QED BY <2>1 DEF FlightInv
<1> QED BY <1>3, <1>6, <1>7 DEF PlacesOnly

-----------------------------------------------------------------------------
(***************************************************************************)
(* Every step keeps every request in one place.                            *)
(***************************************************************************)

\* No request has arrived at start-up.
LEMMA PlacesInit == Init => PlacesInv
<1> SUFFICES ASSUME Init PROVE PlacesInv
  OBVIOUS
<1>1. TypeOK
  BY TypeInit
<1>2. ScheduleInv
  BY DEF Init, ScheduleInv, NoSchedule
<1>3. StepsRemain
  BY BatchSchedulerAssumption DEF Init, StepsRemain
<1>4. \A r : Nowhere(r)
  BY DEF Init, Nowhere, NotInBatchStates, NotIn, NotInDp, EmptyQueues, NoSchedule
<1>5. PlaceInv
  BY <1>4 DEF Init, PlaceInv
<1>6. FlightInv
  <2>1. \A b \in Batches : outputs[b] = <<>>
    BY <1>1, Actives DEF Init
  <2> QED BY <2>1 DEF FlightInv, InFlight
<1> QED BY <1>1, <1>2, <1>3, <1>5, <1>6 DEF PlacesInv

\* What a Schedule's last part assigns, by the strategies' choices.
LEMMA StrategiesSay ==
  ASSUME TypeOK, NEW b \in Batches, ScheduleStrategies(b)
  PROVE  \E A, R, Y : /\ StrategiesStep(b, A, R, Y)
                      /\ Finish(Gone(b))
                      /\ kv_cached' = kv_cached \ (R \cup Gone(b))
                      /\ resources' = resources \ (R \cup Gone(b))
<1>1. PICK A, R, Y : StrategyOf(b, A, R, Y)
  BY StrategiesChosen
<1>2. /\ schedule.at = "strategies" /\ schedule' = NoSchedule
      /\ dp_waiting_reqs' = [i \in 1..MaxDp |-> {}]
      /\ UNCHANGED <<config, stopped, waiting_reqs, outputs>>
  BY DEF ScheduleStrategies
<1>3. StrategiesStep(b, A, R, Y)
  BY <1>1, <1>2 DEF StrategiesStep
<1>4. Strategies(b, A, R, Y)
  BY <1>1 DEF StrategyOf
<1>5. /\ Finish(Gone(b))
      /\ kv_cached' = kv_cached \ (R \cup Gone(b))
      /\ resources' = resources \ (R \cup Gone(b))
  BY <1>4, Zenon DEF Strategies, Merged, Gone
<1> QED BY <1>3, <1>5

\* Every step.
LEMMA PlacesStep == PlacesInv /\ HeldInv /\ [Next]_vars => PlacesInv'
<1> SUFFICES ASSUME PlacesInv, HeldInv, [Next]_vars PROVE PlacesInv'
  OBVIOUS
<1>1. TypeOK' /\ StepsRemain'
  BY HeldStep, TypeStep DEF PlacesInv
<1>2. SUFFICES PlacesOnly'
  BY <1>1 DEF PlacesInv, PlacesOnly
<1>3. ASSUME UNCHANGED <<queues, config, schedule, outputs, status>>,
             stopped \subseteq stopped'
      PROVE  PlacesOnly'
  <2>1. ScheduleInv'
    BY <1>3 DEF PlacesInv, ScheduleInv
  <2>2. UNCHANGED places
    BY <1>3 DEF places
  <2> QED BY <1>3, <2>1, <2>2, StillPlaces
<1>4. CASE \E G \in Groups : AddInferRequest(G)
  BY <1>4, AddPlaces
<1>5. CASE \E r \in Requests : StopRequest(r)
  <2>1. UNCHANGED <<queues, config, schedule, outputs, status>>
        /\ stopped \subseteq stopped'
    BY <1>5 DEF StopRequest
  <2> QED BY <1>3, <2>1
<1>6. CASE MaxWaitingTimePasses
  <2>1. UNCHANGED <<queues, config, schedule, outputs, status>>
        /\ stopped \subseteq stopped'
    BY <1>6 DEF MaxWaitingTimePasses, requests
  <2> QED BY <1>3, <2>1
<1>7. ASSUME NEW b \in Batches, LoopStep(b) PROVE PlacesOnly'
  <2>1. CASE WaitUntilHaveReqs(b)
    <3>1. UNCHANGED <<queues, config, schedule, outputs, status>>
          /\ stopped \subseteq stopped'
      BY <2>1 DEF WaitUntilHaveReqs, requests
    <3> QED BY <1>3, <3>1
  <2>2. CASE CollectWaitingReqs(b)
    BY <2>2, CollectPlaces
  <2>3. CASE BalanceWaitingReqs(b)
    BY <2>3, BalancePlaces
  <2>4. CASE BalanceADPRequests(b)
    BY <2>4, ADPPlaces
  <2>5. CASE ScheduleStrategies(b)
    BY <2>5, StrategiesSay, StrategiesPlaces DEF PlacesInv
  <2>6. CASE TryToLaunchPlannedScheduleOutput(b)
    BY <2>6, LaunchPlaces
  <2> QED BY <1>7, <2>1, <2>2, <2>3, <2>4, <2>5, <2>6 DEF LoopStep
<1>8. ASSUME NEW b \in Batches, UpdateWithGenerationResult(b) PROVE PlacesOnly'
  BY <1>8, UpdateSays, UpdatePlaces
<1>9. CASE UNCHANGED vars
  <2>1. UNCHANGED <<queues, config, schedule, outputs, status>>
        /\ stopped \subseteq stopped'
    BY <1>9 DEF vars, requests
  <2> QED BY <1>3, <2>1
<1> QED BY <1>4, <1>5, <1>6, <1>7, <1>8, <1>9 DEF Next

\* How many slots of a queue hold a request.
LEMMA CountSlots ==
  ASSUME NEW queue, NEW r
  PROVE  /\ NotIn(queue, r) => Cardinality({s \in Slots : r \in queue[s]}) = 0
         /\ \A s \in Slots : OnlyAt(queue, s, r) =>
              Cardinality({t \in Slots : r \in queue[t]}) = 1
<1>1. ASSUME NotIn(queue, r)
      PROVE  Cardinality({s \in Slots : r \in queue[s]}) = 0
  <2>1. {s \in Slots : r \in queue[s]} = {}
    BY <1>1 DEF NotIn
  <2> QED BY <2>1, FS_EmptySet
<1>2. ASSUME NEW s \in Slots, OnlyAt(queue, s, r)
      PROVE  Cardinality({t \in Slots : r \in queue[t]}) = 1
  <2>1. {t \in Slots : r \in queue[t]} = {s}
    BY <1>2 DEF OnlyAt
  <2> QED BY <2>1, FS_Singleton
<1> QED BY <1>1, <1>2

\* How many ranks hold a request.
LEMMA CountRanks ==
  ASSUME NEW r
  PROVE  /\ NotInDp(r) => Cardinality({i \in 1..MaxDp : r \in dp_waiting_reqs[i]}) = 0
         /\ \A i \in 1..MaxDp :
              (\A j \in 1..MaxDp : r \in dp_waiting_reqs[j] <=> j = i) =>
                Cardinality({j \in 1..MaxDp : r \in dp_waiting_reqs[j]}) = 1
<1>1. ASSUME NotInDp(r)
      PROVE  Cardinality({i \in 1..MaxDp : r \in dp_waiting_reqs[i]}) = 0
  <2>1. {i \in 1..MaxDp : r \in dp_waiting_reqs[i]} = {}
    BY <1>1 DEF NotInDp
  <2> QED BY <2>1, FS_EmptySet
<1>2. ASSUME NEW i \in 1..MaxDp, \A j \in 1..MaxDp : r \in dp_waiting_reqs[j] <=> j = i
      PROVE  Cardinality({j \in 1..MaxDp : r \in dp_waiting_reqs[j]}) = 1
  <2>1. {j \in 1..MaxDp : r \in dp_waiting_reqs[j]} = {i}
    BY <1>2
  <2> QED BY <2>1, FS_Singleton
<1> QED BY <1>1, <1>2

\* Places counts the places.
LEMMA CountPlaces ==
  ASSUME TypeOK, NEW r
  PROVE  /\ Nowhere(r) => Places(r) = 0
         /\ InOnePlace(r) => Places(r) = 1
<1>1. ActiveSlots \subseteq Slots /\ Ranks \subseteq 1..MaxDp
  BY Actives
<1> DEFINE W == Cardinality({s \in Slots : r \in waiting_queue[s]})
           D == Cardinality({s \in Slots : r \in decoding_queue[s]})
           U == Cardinality({s \in Slots : r \in running_reqs[s]})
           Y == Cardinality({s \in Slots : r \in async_recomputed_reqs[s]})
           P == Cardinality({i \in 1..MaxDp : r \in dp_waiting_reqs[i]})
           X == IF r \in waiting_reqs THEN 1 ELSE 0
           C == IF r \in schedule.collected THEN 1 ELSE 0
<1>2. Places(r) = W + D + U + Y + P + X + C
  BY DEF Places
<1>3. /\ NotIn(waiting_queue, r) => W = 0
      /\ NotIn(decoding_queue, r) => D = 0
      /\ NotIn(running_reqs, r) => U = 0
      /\ NotIn(async_recomputed_reqs, r) => Y = 0
      /\ NotInDp(r) => P = 0
      /\ r \notin waiting_reqs => X = 0
      /\ r \notin schedule.collected => C = 0
  BY CountSlots, CountRanks
<1>4. \A s \in ActiveSlots :
        /\ OnlyAt(waiting_queue, s, r) => W = 1
        /\ OnlyAt(decoding_queue, s, r) => D = 1
        /\ OnlyAt(running_reqs, s, r) => U = 1
        /\ OnlyAt(async_recomputed_reqs, s, r) => Y = 1
  BY <1>1, CountSlots
<1>5. /\ r \in waiting_reqs => X = 1
      /\ r \in schedule.collected => C = 1
  OBVIOUS
<1>6. OnlyDp(r) => P = 1
  BY <1>1, CountRanks DEF OnlyDp
<1> HIDE DEF W, D, U, Y, P, X, C
<1>7. CASE Nowhere(r)
  <2>1. W = 0 /\ D = 0 /\ U = 0 /\ Y = 0 /\ P = 0 /\ X = 0 /\ C = 0
    BY <1>3, <1>7 DEF Nowhere, NotInBatchStates
  <2>2. ~InOnePlace(r)
    BY <1>7, OnePlaceOnly
  <2> QED BY <1>2, <2>1, <2>2
<1>8. CASE InOnePlace(r)
  <2>1. ~Nowhere(r)
    BY <1>8, OnePlaceOnly
  <2>2. CASE OnlyArrived(r)
    <3>1. W = 0 /\ D = 0 /\ U = 0 /\ Y = 0 /\ P = 0 /\ X = 1 /\ C = 0
      BY <1>3, <1>5, <2>2 DEF OnlyArrived, NotInBatchStates
    <3> QED BY <1>2, <2>1, <3>1
  <2>3. CASE OnlyCollected(r)
    <3>1. W = 0 /\ D = 0 /\ U = 0 /\ Y = 0 /\ P = 0 /\ X = 0 /\ C = 1
      BY <1>3, <1>5, <2>3 DEF OnlyCollected, NotInBatchStates
    <3> QED BY <1>2, <2>1, <3>1
  <2>4. CASE OnlyDp(r)
    <3>1. W = 0 /\ D = 0 /\ U = 0 /\ Y = 0 /\ P = 1 /\ X = 0 /\ C = 0
      BY <1>3, <1>6, <2>4 DEF OnlyDp, NotInBatchStates
    <3> QED BY <1>2, <2>1, <3>1
  <2>5. ASSUME NEW s \in ActiveSlots,
               \/ OnlyWaiting(r, s) \/ OnlyDecoding(r, s)
               \/ OnlyRunning(r, s) \/ OnlyAsync(r, s)
        PROVE  Places(r) = 1
    <3>1. P = 0 /\ X = 0 /\ C = 0
      BY <1>3, <2>5 DEF OnlyWaiting, OnlyDecoding, OnlyRunning, OnlyAsync, OutOfPool
    <3>2. \/ W = 1 /\ D = 0 /\ U = 0 /\ Y = 0
          \/ W = 0 /\ D = 1 /\ U = 0 /\ Y = 0
          \/ W = 0 /\ D = 0 /\ U = 1 /\ Y = 0
          \/ W = 0 /\ D = 0 /\ U = 0 /\ Y = 1
      BY <1>3, <1>4, <2>5 DEF OnlyWaiting, OnlyDecoding, OnlyRunning, OnlyAsync
    <3> QED BY <1>2, <3>1, <3>2
  <2> QED BY <1>8, <2>1, <2>2, <2>3, <2>4, <2>5 DEF InOnePlace
<1> QED BY <1>7, <1>8

\* AddInferRequest, the balancing functions, the strategies and the results: a
\* request that is to be served is always in exactly one queue of the scheduler,
\* for any number of requests, ranks and batches.
THEOREM EachInOnePlaceCorrect == Spec => []EachInOnePlace
<1>1. Init => PlacesInv /\ HeldInv
  BY PlacesInit, HeldInit
<1>2. (PlacesInv /\ HeldInv) /\ [Next]_vars => (PlacesInv /\ HeldInv)'
  BY PlacesStep, HeldStep
<1>3. PlacesInv => EachInOnePlace
  <2> SUFFICES ASSUME PlacesInv PROVE EachInOnePlace
    OBVIOUS
  <2>1. TypeOK
    BY DEF PlacesInv
  <2>2. ASSUME NEW r \in Requests
        PROVE  CASE status[r] = "accepted" /\ r \notin stopped -> Places(r) = 1
                 [] status[r] = "accepted" /\ r \in stopped -> Places(r) <= 1
                 [] OTHER -> Places(r) = 0
    <3>1. /\ Nowhere(r) => Places(r) = 0
          /\ InOnePlace(r) => Places(r) = 1
      BY <2>1, CountPlaces
    <3>2. /\ InOnePlace(r) \/ Nowhere(r)
          /\ status[r] = "accepted" /\ r \notin stopped => InOnePlace(r)
          /\ status[r] # "accepted" => Nowhere(r)
      BY DEF PlacesInv, PlaceInv
    <3>3. Places(r) = 0 \/ Places(r) = 1
      BY <3>1, <3>2
    <3> HIDE DEF Places
    <3> QED BY <3>1, <3>2, <3>3
  <2> QED BY <2>1, <2>2 DEF EachInOnePlace
<1> QED BY <1>1, <1>2, <1>3, PTL DEF Spec

-----------------------------------------------------------------------------
(***************************************************************************)
(* Every step keeps what the requests need.                                *)
(***************************************************************************)

\* A request with KV is in one place, past the queues that wait.
LEMMA KvPlaces ==
  ASSUME PlacesInv, KvInv, NEW r \in kv_cached
  PROVE  r \in Requests /\ \E s \in ActiveSlots :
           OnlyDecoding(r, s) \/ OnlyRunning(r, s) \/ OnlyAsync(r, s)
<1>1. TypeOK /\ PlaceInv
  BY DEF PlacesInv
<1>2. r \in Requests
  BY <1>1 DEF TypeOK
<1>3. InOnePlace(r) \/ Nowhere(r)
  BY <1>1, <1>2 DEF PlaceInv
<1>4. PICK s \in ActiveSlots :
        r \in decoding_queue[s] \cup running_reqs[s] \cup async_recomputed_reqs[s]
  BY DEF KvInv
<1>5. s \in Slots
  BY <1>1, Actives
<1>6. ~(NotIn(decoding_queue, r) /\ NotIn(running_reqs, r) /\ NotIn(async_recomputed_reqs, r))
  BY <1>4, <1>5 DEF NotIn
<1> QED BY <1>2, <1>3, <1>6 DEF InOnePlace, Nowhere, OnlyArrived, OnlyCollected, OnlyDp,
       NotInBatchStates, OnlyWaiting

\* A request with a step under way is in the batch, or was taken out of it.
LEMMA FlightSlot ==
  ASSUME PlacesInv, NEW b \in Batches, NEW r \in InFlight(b)
  PROVE  \E i \in Ranks : /\ <<i, b>> \in ActiveSlots /\ <<i, b>> \in Slots
                          /\ r \in running_reqs[<<i, b>>] \cup async_recomputed_reqs[<<i, b>>]
<1>1. PICK i \in Ranks : OnlyRunning(r, <<i, b>>) \/ OnlyAsync(r, <<i, b>>)
  BY DEF PlacesInv, FlightInv
<1>2. <<i, b>> \in ActiveSlots /\ <<i, b>> \in Slots
  BY Actives DEF PlacesInv
<1> QED BY <1>1, <1>2 DEF OnlyRunning, OnlyAsync, OnlyAt

\* The steps that leave alone the batches, the KV and the executor.
LEMMA KeepsFrame ==
  ASSUME Keeps,
         UNCHANGED <<config, decoding_queue, running_reqs, async_recomputed_reqs,
                     kv_cached, resources, outputs, live_req_ids>>,
         stopped \subseteq stopped',
         \A c \in Batches : loop'[c] = "launch" => loop[c] = "launch"
  PROVE  Keeps'
<1>1. Ranks' = Ranks /\ Batches' = Batches /\ (FreesInactive' <=> FreesInactive)
  BY DEF Ranks, Batches, FreesInactive, IsEnabledAtStartup
<1>2. ActiveSlots' = ActiveSlots
  BY <1>1 DEF ActiveSlots
<1>3. \A b : InFlight(b)' = InFlight(b)
  BY DEF InFlight
<1>4. KvInv'
  BY <1>2 DEF Keeps, KvInv
<1>5. FlightKeepsResources'
  BY <1>1, <1>3 DEF Keeps, FlightKeepsResources
<1>6. LiveNamed'
  BY <1>1, <1>2 DEF Keeps, LiveNamed
<1>7. LiveKeepsResources'
  BY DEF Keeps, LiveKeepsResources
<1> QED BY <1>4, <1>5, <1>6, <1>7 DEF Keeps

\* A Schedule: what it recomputes has no step under way, what leaves is stopped,
\* and the live ids name the rest of its batch.
LEMMA StrategiesKeep ==
  ASSUME ResourceInv, NEW b \in Batches, ScheduleStrategies(b)
  PROVE  Keeps'
<1>1. PlacesInv /\ Keeps /\ TypeOK
  BY DEF ResourceInv, PlacesInv
<1>2. PICK A, R, Y : /\ StrategiesStep(b, A, R, Y)
                     /\ kv_cached' = kv_cached \ (R \cup Gone(b))
                     /\ resources' = resources \ (R \cup Gone(b))
  BY <1>1, StrategiesSay
<1>3. /\ R \subseteq InBatch(decoding_queue, b)
      /\ UNCHANGED <<config, stopped, outputs>>
      /\ \A r : StrategiesMoved(b, A, R, Y, r)
  BY <1>2, StrategiesAssign DEF StrategiesStep, StrategyOf
<1>4. /\ live_req_ids' = [s \in Slots |-> IF s[2] = b
           THEN FillLiveReqIds(running_reqs'[s], decoding_queue'[s],
                               waiting_queue'[s], async_recomputed_reqs'[s])
           ELSE live_req_ids[s]]
      /\ loop' = [loop EXCEPT ![b] = "launch"]
  BY DEF ScheduleStrategies
<1>5. /\ Ranks' = Ranks /\ Batches' = Batches /\ ActiveSlots' = ActiveSlots
      /\ \A c : InFlight(c)' = InFlight(c)
      /\ (FreesInactive' <=> FreesInactive)
  BY <1>1, <1>2, <1>3, StrategiesPool DEF FreesInactive, IsEnabledAtStartup
<1>6. ActiveSlots \subseteq Slots
  BY <1>1, Actives
<1>7. KvInv'
  <2>1. ASSUME NEW r \in kv_cached'
        PROVE  \E s \in ActiveSlots :
                 r \in decoding_queue'[s] \cup running_reqs'[s] \cup async_recomputed_reqs'[s]
    <3>1. r \in kv_cached /\ r \notin R /\ r \notin Gone(b)
      BY <1>2, <2>1
    <3>2. PICK s \in ActiveSlots :
            OnlyDecoding(r, s) \/ OnlyRunning(r, s) \/ OnlyAsync(r, s)
      BY <1>1, <3>1, KvPlaces DEF Keeps
    <3>3. OnlyDecoding(r, s)' \/ OnlyRunning(r, s)' \/ OnlyAsync(r, s)'
      <4>1. CASE s[2] # b
        BY <1>1, <1>2, <3>2, <4>1, StrategiesOther
      <4>2. CASE s[2] = b /\ OnlyDecoding(r, s)
        BY <1>1, <1>2, <3>1, <4>2, StrategiesDecoding
      <4>3. CASE s[2] = b /\ (OnlyRunning(r, s) \/ OnlyAsync(r, s))
        BY <1>1, <1>2, <3>1, <4>3, StrategiesRunning
      <4> QED BY <3>2, <4>1, <4>2, <4>3
    <3> QED BY <1>6, <3>3 DEF OnlyDecoding, OnlyRunning, OnlyAsync, OnlyAt
  <2> QED BY <1>5, <2>1 DEF KvInv
<1>8. FlightKeepsResources'
  <2>1. ASSUME NEW c \in Batches, NEW r \in InFlight(c), r \notin stopped
        PROVE  r \in resources'
    <3>1. r \in resources
      BY <1>1, <2>1 DEF Keeps, FlightKeepsResources
    <3>2. r \notin Gone(b)
      BY <2>1 DEF Gone
    <3>3. r \notin R
      <4>1. NotIn(decoding_queue, r)
        BY <1>1, FlightPlaces
      <4> QED BY <1>1, <1>3, <4>1, NotInBatch
    <3> QED BY <1>2, <3>1, <3>2, <3>3
  <2> QED BY <1>3, <1>5, <2>1 DEF FlightKeepsResources
<1>9. LiveNamed'
  <2>1. ASSUME FreesInactive, NEW c \in Batches, loop'[c] = "launch",
               NEW s \in ActiveSlots, s[2] = c,
               NEW r \in running_reqs'[s] \cup decoding_queue'[s]
                           \cup async_recomputed_reqs'[s], r \notin stopped
        PROVE  r \in live_req_ids'[s]
    <3>1. s \in Slots
      BY <1>6
    <3>2. CASE c = b
      BY <1>3, <1>4, <2>1, <3>1, <3>2 DEF FillLiveReqIds
    <3>3. CASE c # b
      <4>1. loop[c] = "launch"
        <5>1. c \in 1..MaxPp /\ loop \in [1..MaxPp -> {"wait", "schedule", "launch"}]
          BY <1>1, Actives DEF TypeOK
        <5> QED BY <1>4, <2>1, <3>3, <5>1
      <4>2. r \in running_reqs[s] \cup decoding_queue[s] \cup async_recomputed_reqs[s]
        BY <1>3, <2>1, <3>1, <3>3 DEF StrategiesMoved
      <4>3. r \in live_req_ids[s]
        BY <1>1, <2>1, <4>1, <4>2 DEF Keeps, LiveNamed
      <4> QED BY <1>4, <2>1, <3>1, <3>3, <4>3
    <3> QED BY <3>2, <3>3
  <2> QED BY <1>3, <1>5, <2>1 DEF LiveNamed
<1>10. LiveKeepsResources'
  BY <1>1, <1>2, <1>3 DEF Keeps, LiveKeepsResources
<1> QED BY <1>7, <1>8, <1>9, <1>10 DEF Keeps

\* A launch: what the executor frees is not live, so it is nobody's who goes on.
LEMMA LaunchKeeps ==
  ASSUME ResourceInv, NEW b \in Batches, TryToLaunchPlannedScheduleOutput(b)
  PROVE  Keeps'
<1> DEFINE S == StoppedReqs(b)
<1>1. PlacesInv /\ Keeps /\ TypeOK
  BY DEF ResourceInv, PlacesInv
<1>2. /\ running_reqs' = Without(running_reqs, S)
      /\ kv_cached' = kv_cached \ S
      /\ loop[b] = "launch"
      /\ UNCHANGED <<config, stopped, decoding_queue, async_recomputed_reqs,
                     live_req_ids>>
      /\ \/ resources' = AfterProcess(b) \ S
         \/ resources' = resources \ S /\ outputs' = outputs
  BY DEF TryToLaunchPlannedScheduleOutput
<1>3. S \subseteq stopped
  BY DEF StoppedReqs
<1> HIDE DEF S
<1>4. /\ Ranks' = Ranks /\ Batches' = Batches /\ (FreesInactive' <=> FreesInactive)
  BY <1>2 DEF Ranks, Batches, FreesInactive, IsEnabledAtStartup
<1>5. ActiveSlots' = ActiveSlots /\ ActiveSlots \subseteq Slots
  BY <1>1, <1>4, Actives DEF ActiveSlots
<1>6. ASSUME NEW r, NEW t \in Slots
      PROVE  r \in running_reqs'[t] <=> r \in running_reqs[t] /\ r \notin S
  BY <1>2 DEF Without
\* What goes on in a batch of the fast path, the only one, is live.
<1>7. ASSUME FreesInactive, NEW s \in ActiveSlots, NEW r,
             r \in decoding_queue[s] \cup running_reqs[s] \cup async_recomputed_reqs[s],
             r \notin stopped
      PROVE  r \in InBatch(live_req_ids, b)
  <2>1. config.max_pp_batch_num = 1
    BY <1>7 DEF FreesInactive, IsEnabledAtStartup
  <2>2. s[2] = b /\ s = <<s[1], b>> /\ s[1] \in Ranks
    <3>1. Batches = {1}
      BY <2>1 DEF Batches
    <3> QED BY <1>1, <3>1, Actives
  <2>3. r \in live_req_ids[s]
    BY <1>1, <1>2, <1>7, <2>2 DEF Keeps, LiveNamed
  <2> QED BY <2>2, <2>3, InBatchIs
<1>8. ASSUME NEW r, r \notin stopped, r \in resources,
             NEW s \in ActiveSlots,
             r \in decoding_queue[s] \cup running_reqs[s] \cup async_recomputed_reqs[s]
      PROVE  r \in resources'
  <2>1. r \notin S
    BY <1>3, <1>8
  <2>2. r \in AfterProcess(b)
    BY <1>7, <1>8 DEF AfterProcess
  <2> QED BY <1>2, <1>8, <2>1, <2>2
<1>9. KvInv'
  <2>1. ASSUME NEW r \in kv_cached'
        PROVE  \E s \in ActiveSlots :
                 r \in decoding_queue'[s] \cup running_reqs'[s] \cup async_recomputed_reqs'[s]
    <3>1. r \in kv_cached /\ r \notin S
      BY <1>2, <2>1
    <3>2. PICK s \in ActiveSlots :
            r \in decoding_queue[s] \cup running_reqs[s] \cup async_recomputed_reqs[s]
      BY <1>1, <3>1 DEF Keeps, KvInv
    <3> QED BY <1>2, <1>5, <1>6, <3>1, <3>2
  <2> QED BY <1>5, <2>1 DEF KvInv
<1>10. FlightKeepsResources'
  <2>1. ASSUME NEW c \in Batches, NEW r \in InFlight(c)', r \notin stopped
        PROVE  r \in resources'
    <3>1. CASE r \in InFlight(c)
      <4>1. r \in resources
        BY <1>1, <2>1, <3>1 DEF Keeps, FlightKeepsResources
      <4>2. PICK i \in Ranks : /\ <<i, c>> \in ActiveSlots
                               /\ r \in running_reqs[<<i, c>>] \cup async_recomputed_reqs[<<i, c>>]
        BY <1>1, <3>1, FlightSlot
      <4> QED BY <1>8, <2>1, <4>1, <4>2
    <3>2. CASE r \notin InFlight(c)
      <4>1. c = b /\ r \in Launching(b)
        BY <1>1, <2>1, <3>2, LaunchFlight
      <4>2. outputs' # outputs
        BY <2>1, <3>2 DEF InFlight
      <4>3. resources' = AfterProcess(b) \ S
        BY <1>2, <4>2
      <4> QED BY <1>3, <2>1, <4>1, <4>3 DEF AfterProcess
    <3> QED BY <3>1, <3>2
  <2> QED BY <1>2, <1>4, <2>1 DEF FlightKeepsResources
<1>11. LiveNamed'
  <2>1. ASSUME FreesInactive, NEW c \in Batches, loop'[c] = "launch"
        PROVE  loop[c] = "launch"
    <3>1. config.max_pp_batch_num = 1
      BY <2>1 DEF FreesInactive, IsEnabledAtStartup
    <3>2. c = b
      BY <3>1 DEF Batches
    <3> QED BY <1>2, <3>2
  <2>2. ASSUME NEW r, NEW t \in Slots, r \in running_reqs'[t]
        PROVE  r \in running_reqs[t]
    BY <1>6, <2>2
  <2> QED BY <1>1, <1>2, <1>4, <1>5, <2>1, <2>2 DEF Keeps, LiveNamed
<1>12. LiveKeepsResources'
  <2>1. ASSUME NEW r \in kv_cached', r \notin stopped PROVE r \in resources'
    <3>1. r \in kv_cached /\ r \in resources
      BY <1>1, <1>2, <2>1 DEF Keeps, LiveKeepsResources
    <3>2. PICK s \in ActiveSlots :
            r \in decoding_queue[s] \cup running_reqs[s] \cup async_recomputed_reqs[s]
      BY <1>1, <3>1 DEF Keeps, KvInv
    <3> QED BY <1>8, <2>1, <3>1, <3>2
  <2> QED BY <1>2, <2>1 DEF LiveKeepsResources
<1> QED BY <1>9, <1>10, <1>11, <1>12 DEF Keeps

\* A result: a request whose step is back has its KV where it had its resources.
LEMMA UpdateKeeps ==
  ASSUME ResourceInv, NEW b \in Batches, UpdateWithGenerationResult(b)
  PROVE  Keeps'
<1>1. PlacesInv /\ Keeps /\ TypeOK
  BY DEF ResourceInv, PlacesInv
<1>2. PICK recovered : UpdateAssigns(b, recovered)
  BY UpdateSays
<1> DEFINE lost == GoneBack(b) \cup (Taken(b) \ recovered)
<1>3. /\ stopped' = stopped \cup Ended(b)
      /\ kv_cached' = (kv_cached \cup Alive(b)) \ lost
      /\ resources' = resources \ lost
      /\ recovered \subseteq Taken(b)
      /\ UNCHANGED <<config, loop, live_req_ids>>
  BY <1>2 DEF UpdateAssigns
<1>4. /\ lost \subseteq Drained(b)
      /\ \A r : r \in lost <=> r \in GoneBack(b) \/ r \in Taken(b) \ recovered
  BY DEF GoneBack, Taken
<1> HIDE DEF lost
<1>5. /\ Ranks' = Ranks /\ Batches' = Batches /\ (FreesInactive' <=> FreesInactive)
  BY <1>3 DEF Ranks, Batches, FreesInactive, IsEnabledAtStartup
<1>6. /\ ActiveSlots' = ActiveSlots /\ ActiveSlots \subseteq Slots
      /\ \A i \in Ranks : <<i, b>> \in ActiveSlots /\ <<i, b>> \in Slots
  BY <1>1, <1>5, Actives DEF ActiveSlots
<1>7. /\ Back(b) \subseteq InFlight(b)
      /\ \A c \in Batches : InFlight(c)' \subseteq InFlight(c)
      /\ \A r \in InFlight(b)' : r \notin Drained(b)
  BY <1>1, <1>2, UpdateFlight
<1>8. KvInv'
  <2>1. ASSUME NEW r \in kv_cached'
        PROVE  \E s \in ActiveSlots :
                 r \in decoding_queue'[s] \cup running_reqs'[s] \cup async_recomputed_reqs'[s]
    <3>1. (r \in kv_cached \/ r \in Alive(b)) /\ r \notin lost
      BY <1>3, <2>1
    <3>2. CASE r \in Drained(b)
      <4>1. PICK i \in Ranks :
              OnlyDecoding(r, <<i, b>>)' \/ OnlyRunning(r, <<i, b>>)'
        BY <1>1, <1>2, <1>4, <3>1, <3>2, UpdateDrained
      <4> QED BY <1>6, <4>1 DEF OnlyDecoding, OnlyRunning, OnlyAt
    <3>3. CASE r \notin Drained(b)
      <4>1. PICK s \in ActiveSlots :
              r \in decoding_queue[s] \cup running_reqs[s] \cup async_recomputed_reqs[s]
        <5>1. CASE r \in kv_cached
          BY <1>1, <5>1 DEF Keeps, KvInv
        <5>2. CASE r \in Alive(b)
          <6>1. r \in InFlight(b)
            BY <1>7, <5>2 DEF Alive
          <6> QED BY <1>1, <6>1, FlightSlot
        <5> QED BY <3>1, <5>1, <5>2
      <4> QED BY <1>1, <1>2, <1>6, <3>3, <4>1, UpdateOther
    <3> QED BY <3>2, <3>3
  <2> QED BY <1>6, <2>1 DEF KvInv
<1>9. FlightKeepsResources'
  <2>1. ASSUME NEW c \in Batches, NEW r \in InFlight(c)', r \notin stopped'
        PROVE  r \in resources'
    <3>1. r \in InFlight(c) /\ r \notin stopped
      BY <1>3, <1>7, <2>1
    <3>2. r \in resources
      BY <1>1, <3>1 DEF Keeps, FlightKeepsResources
    <3>3. r \notin lost
      <4>1. SUFFICES ASSUME r \in lost PROVE FALSE
        OBVIOUS
      <4>2. c # b /\ r \in Drained(b)
        BY <1>4, <1>7, <2>1, <4>1
      <4>3. PICK k \in Ranks : OnlyRunning(r, <<k, b>>) \/ OnlyAsync(r, <<k, b>>)
        BY <1>1, <1>2, <4>2, DrainedSlot
      <4>4. PICK i \in Ranks : OnlyRunning(r, <<i, c>>) \/ OnlyAsync(r, <<i, c>>)
        BY <1>1, <3>1 DEF PlacesInv, FlightInv
      <4>5. <<i, c>> \in Slots /\ <<k, b>> \in Slots
        BY <1>1, Actives
      <4>6. <<i, c>> = <<k, b>>
        BY <4>3, <4>4, <4>5 DEF OnlyRunning, OnlyAsync, OnlyAt, NotIn
      <4> QED BY <4>2, <4>6
    <3> QED BY <1>3, <3>2, <3>3
  <2> QED BY <1>5, <2>1 DEF FlightKeepsResources
<1>10. LiveNamed'
  <2>1. ASSUME FreesInactive, NEW c \in Batches, loop[c] = "launch",
               NEW s \in ActiveSlots, s[2] = c,
               NEW r \in running_reqs'[s] \cup decoding_queue'[s]
                           \cup async_recomputed_reqs'[s], r \notin stopped'
        PROVE  r \in live_req_ids'[s]
    <3>1. r \in running_reqs[s] \cup decoding_queue[s] \cup async_recomputed_reqs[s]
      <4>1. UpdateMoved(b, recovered, r) /\ s \in Slots
        BY <1>2, <1>6, UpdateMoves
      <4> QED BY <2>1, <4>1 DEF UpdateMoved
    <3>2. r \notin stopped
      BY <1>3, <2>1
    <3> QED BY <1>1, <1>3, <2>1, <3>1, <3>2 DEF Keeps, LiveNamed
  <2> QED BY <1>3, <1>5, <1>6, <2>1 DEF LiveNamed
<1>11. LiveKeepsResources'
  <2>1. ASSUME NEW r \in kv_cached', r \notin stopped' PROVE r \in resources'
    <3>1. (r \in kv_cached \/ r \in Alive(b)) /\ r \notin lost /\ r \notin stopped
      BY <1>3, <2>1
    <3>2. r \in Alive(b) => r \in InFlight(b)
      BY <1>7 DEF Alive
    <3>3. r \in resources
      BY <1>1, <3>1, <3>2 DEF Keeps, LiveKeepsResources, FlightKeepsResources
    <3> QED BY <1>3, <3>1, <3>3
  <2> QED BY <2>1 DEF LiveKeepsResources
<1> QED BY <1>8, <1>9, <1>10, <1>11 DEF Keeps

\* Every step.
LEMMA KeepsStep == ResourceInv /\ [Next]_vars => Keeps'
<1> SUFFICES ASSUME ResourceInv, [Next]_vars PROVE Keeps'
  OBVIOUS
<1>1. Keeps /\ TypeOK
  BY DEF ResourceInv, PlacesInv
<1> DEFINE still == UNCHANGED <<config, decoding_queue, running_reqs,
                       async_recomputed_reqs, kv_cached, resources, outputs,
                       live_req_ids>> /\ stopped \subseteq stopped'
<1>2. ASSUME still, UNCHANGED loop PROVE Keeps'
  BY <1>1, <1>2, KeepsFrame
<1>3. CASE \E G \in Groups : AddInferRequest(G)
  <2>1. still /\ UNCHANGED loop
    BY <1>3 DEF AddInferRequest, batch_states
  <2> QED BY <1>2, <2>1
<1>4. CASE \E r \in Requests : StopRequest(r)
  <2>1. still /\ UNCHANGED loop
    BY <1>4 DEF StopRequest, queues, batch_states
  <2> QED BY <1>2, <2>1
<1>5. CASE MaxWaitingTimePasses
  <2>1. still /\ UNCHANGED loop
    BY <1>5 DEF MaxWaitingTimePasses, requests, queues, batch_states
  <2> QED BY <1>2, <2>1
<1>6. ASSUME NEW b \in Batches, LoopStep(b) PROVE Keeps'
  <2>1. CASE WaitUntilHaveReqs(b)
    <3>1. still /\ loop' = [loop EXCEPT ![b] = "schedule"]
      BY <2>1 DEF WaitUntilHaveReqs, requests, queues, batch_states
    <3>2. b \in 1..MaxPp /\ loop \in [1..MaxPp -> {"wait", "schedule", "launch"}]
      BY <1>1, Actives DEF TypeOK
    <3>3. \A c \in Batches : loop'[c] = "launch" => loop[c] = "launch"
      BY <1>1, <3>1, <3>2, Actives
    <3> QED BY <1>1, <3>1, <3>3, KeepsFrame
  <2>2. CASE CollectWaitingReqs(b)
    <3>1. still /\ UNCHANGED loop
      BY <2>2 DEF CollectWaitingReqs, requests, batch_states
    <3> QED BY <1>2, <3>1
  <2>3. CASE BalanceWaitingReqs(b)
    <3>1. still /\ UNCHANGED loop
      BY <2>3 DEF BalanceWaitingReqs, requests, batch_states
    <3> QED BY <1>2, <3>1
  <2>4. CASE BalanceADPRequests(b)
    <3>1. still /\ UNCHANGED loop
      BY <2>4 DEF BalanceADPRequests, requests
    <3> QED BY <1>2, <3>1
  <2>5. CASE ScheduleStrategies(b)
    BY <2>5, StrategiesKeep
  <2>6. CASE TryToLaunchPlannedScheduleOutput(b)
    BY <2>6, LaunchKeeps
  <2> QED BY <1>6, <2>1, <2>2, <2>3, <2>4, <2>5, <2>6 DEF LoopStep
<1>7. ASSUME NEW b \in Batches, UpdateWithGenerationResult(b) PROVE Keeps'
  BY <1>7, UpdateKeeps
<1>8. CASE UNCHANGED vars
  <2>1. still /\ UNCHANGED loop
    BY <1>8 DEF vars, requests, queues, batch_states
  <2> QED BY <1>2, <2>1
<1> QED BY <1>3, <1>4, <1>5, <1>6, <1>7, <1>8 DEF Next

\* FillLiveReqIds and FreeInactive: the executor never drops the state of a
\* request whose KV it will need again, for any number of requests, ranks and
\* batches.
THEOREM LiveKeepsResourcesCorrect == Spec => []LiveKeepsResources
<1>1. Init => ResourceInv /\ HeldInv
  <2> SUFFICES ASSUME Init PROVE ResourceInv /\ HeldInv
    OBVIOUS
  <2>1. PlacesInv /\ HeldInv
    BY PlacesInit, HeldInit
  <2>2. Batches \subseteq 1..MaxPp
    BY <2>1, Actives DEF PlacesInv
  <2>3. Keeps
    BY <2>2 DEF Init, Keeps, KvInv, FlightKeepsResources, InFlight, LiveNamed,
               LiveKeepsResources
  <2> QED BY <2>1, <2>3 DEF ResourceInv
<1>2. (ResourceInv /\ HeldInv) /\ [Next]_vars => (ResourceInv /\ HeldInv)'
  BY PlacesStep, HeldStep, KeepsStep DEF ResourceInv
<1>3. ResourceInv => LiveKeepsResources
  BY DEF ResourceInv, Keeps
<1> QED BY <1>1, <1>2, <1>3, PTL DEF Spec
-----------------------------------------------------------------------------

\* The last of a finite set in an order.
LEMMA LastOf ==
  ASSUME NEW P, NEW n \in Nat, NEW order \in [P -> 0..n], NEW Q, Q \subseteq P, Q # {}
  PROVE  \E q \in Q : \A r \in Q : order[r] <= order[q]
<1> DEFINE T == {n - order[q] : q \in Q}
<1>1. T \subseteq Nat /\ T # {}
  OBVIOUS
<1>2. PICK m \in T : \A k \in T : m <= k
  <2> HIDE DEF T
  <2> QED BY <1>1, LeastOf
<1>3. PICK q \in Q : m = n - order[q]
  BY <1>2
<1>4. ASSUME NEW r \in Q PROVE order[r] <= order[q]
  <2>1. n - order[q] <= n - order[r]
    BY <1>2, <1>3
  <2>2. order[q] \in Nat /\ order[r] \in Nat
    OBVIOUS
  <2> QED BY <2>1, <2>2
<1> QED BY <1>4

\* Each in its turn goes where the work that is there is least.
LeastWork(P, R, w, base, rank, order) ==
  \A r \in P : \A i \in R :
    base[rank[r]] + SumFunctionOnSet(w, {s \in P : order[s] < order[r]
                                                     /\ rank[s] = rank[r]})
      <= base[i] + SumFunctionOnSet(w, {s \in P : order[s] < order[r] /\ rank[s] = i})

\* No rank would have less work if one of another rank's moved there.
NoneBetter(P, R, w, base, rank) ==
  \A i, j \in R : \A r \in P : rank[r] = i =>
    base[i] + SumFunctionOnSet(w, {s \in P : rank[s] = i}) - w[r]
      <= base[j] + SumFunctionOnSet(w, {s \in P : rank[s] = j})

\* Longest first, each to the rank with the least work: where the shortest of a
\* rank, its last, was put there was least work before it.
LEMMA GreedyBalances ==
  ASSUME NEW P, IsFiniteSet(P), NEW R,
         NEW w, \A x \in P : w[x] \in Nat,
         NEW base, \A i \in R : base[i] \in Nat,
         NEW rank \in [P -> R],
         NEW n \in Nat, NEW order \in [P -> 0..n],
         \A r, s \in P : order[r] = order[s] => r = s,
         \A r, s \in P : w[s] > w[r] => order[s] < order[r],
         LeastWork(P, R, w, base, rank, order)
  PROVE  NoneBetter(P, R, w, base, rank)
<1> SUFFICES ASSUME NEW i \in R, NEW j \in R, NEW r \in P, rank[r] = i
             PROVE  base[i] + SumFunctionOnSet(w, {s \in P : rank[s] = i}) - w[r]
                      <= base[j] + SumFunctionOnSet(w, {s \in P : rank[s] = j})
  BY DEF NoneBetter
<1> DEFINE Q == {s \in P : rank[s] = i}
           Qj == {s \in P : rank[s] = j}
<1>1. Q \in SUBSET P /\ Qj \in SUBSET P /\ r \in Q
  OBVIOUS
<1>2. PICK q \in Q : \A s \in Q : order[s] <= order[q]
  <2> HIDE DEF Q
  <2>1. \E q \in Q : \A s \in Q : order[s] <= order[q]
    BY <1>1, LastOf
  <2> QED BY <2>1
<1> DEFINE B == {s \in P : order[s] < order[q] /\ rank[s] = i}
           Bj == {s \in P : order[s] < order[q] /\ rank[s] = j}
<1>3. q \in P /\ rank[q] = i
  OBVIOUS
<1>4. base[i] + SumFunctionOnSet(w, B) <= base[j] + SumFunctionOnSet(w, Bj)
  BY <1>3 DEF LeastWork
<1>5. Q = B \cup {q} /\ q \notin B
  <2>1. \A s \in P : order[s] \in Nat
    OBVIOUS
  <2>2. ASSUME NEW s \in Q, s # q PROVE s \in B
    <3>1. order[s] <= order[q] /\ order[s] # order[q]
      BY <1>2, <1>3, <2>2
    <3> QED BY <2>1, <1>3, <3>1
  <2>3. B \subseteq Q /\ q \in Q /\ q \notin B
    BY <1>3, <2>1
  <2> QED BY <2>2, <2>3
<1>6. B \in SUBSET P /\ Bj \in SUBSET Qj
  OBVIOUS
<1>7. w[q] <= w[r]
  <2>1. ~(order[q] < order[r])
    <3>1. order[r] <= order[q] /\ order[q] \in Nat /\ order[r] \in Nat
      BY <1>1, <1>2, <1>3
    <3> QED BY <3>1
  <2>2. ~(w[q] > w[r])
    BY <1>3, <2>1
  <2>3. w[q] \in Nat /\ w[r] \in Nat
    BY <1>3
  <2> QED BY <2>2, <2>3
<1> HIDE DEF Q, Qj, B, Bj
<1>8. SumFunctionOnSet(w, Q) = SumFunctionOnSet(w, B) + w[q]
  <2>1. q \in P \ B
    BY <1>3, <1>5
  <2> QED BY <1>5, <1>6, <2>1, SumFacts
<1>9. SumFunctionOnSet(w, Bj) <= SumFunctionOnSet(w, Qj)
  BY <1>1, <1>6, SumMonotone
<1>10. /\ SumFunctionOnSet(w, B) \in Nat /\ SumFunctionOnSet(w, Q) \in Nat
       /\ SumFunctionOnSet(w, Bj) \in Nat /\ SumFunctionOnSet(w, Qj) \in Nat
  <2>1. Bj \in SUBSET P
    BY <1>1, <1>6
  <2> QED BY <1>1, <1>6, <2>1, SumFacts
<1>11. base[i] \in Nat /\ base[j] \in Nat /\ w[q] \in Nat /\ w[r] \in Nat
  BY <1>3
<1>12. base[i] + SumFunctionOnSet(w, Q) - w[r] <= base[j] + SumFunctionOnSet(w, Qj)
  BY <1>4, <1>7, <1>8, <1>9, <1>10, <1>11
<1> QED BY <1>12 DEF Q, Qj

\* What each request adds.
tokens == [r \in Requests |-> TokensNum(r)]

\* A request has a length.
LEMMA TokensNumType == ASSUME TypeOK PROVE \A r \in Requests : TokensNum(r) \in Nat
<1> SUFFICES ASSUME NEW r \in Requests PROVE TokensNum(r) \in Nat
  OBVIOUS
<1> DEFINE G == CHOOSE G \in Groups : r \in G
<1>1. G \in Groups /\ r \in G
  BY BatchSchedulerAssumption
<1>2. G \subseteq Nat /\ G # {}
  BY <1>1, BatchSchedulerAssumption
<1> HIDE DEF G
<1>3. Min(G) \in Nat
  <2>1. \E n \in G : \A m \in G : n <= m
    BY <1>2, LeastOf
  <2>2. Min(G) \in G
    BY <2>1 DEF Min
  <2> QED BY <1>2, <2>2
<1>4. InputLen(G) \in Nat
  BY <1>3 DEF InputLen
<1> QED BY <1>4 DEF TokensNum, G

\* TotalTokens is a sum.
LEMMA TotalTokensIs ==
  TypeOK => \A S \in SUBSET Requests :
    TotalTokens(S) = SumFunctionOnSet(tokens, S) /\ TotalTokens(S) \in Nat
<1> SUFFICES ASSUME TypeOK, NEW S \in SUBSET Requests
             PROVE  TotalTokens(S) = SumFunctionOnSet(tokens, S)
                      /\ TotalTokens(S) \in Nat
  OBVIOUS
<1> DEFINE Body(f) == [s \in SUBSET S |-> IF s = {} THEN 0
                         ELSE TokensNum(CHOOSE x \in s : TRUE)
                                + f[s \ {CHOOSE x \in s : TRUE}]]
           it == CHOOSE f : f = Body(f)
<1>1. TotalTokens(S) = it[S]
  BY DEF TotalTokens, MapThenSumSet, MapThenFoldSet
<1>2. IsFiniteSet(S) /\ IsFiniteSet(Requests)
  BY BatchSchedulerAssumption, FS_Subset
<1>3. \A x \in Requests : tokens[x] = TokensNum(x) /\ tokens[x] \in Nat
  BY TokensNumType DEF tokens
<1>4. ASSUME NEW s \in SUBSET S, s # {}
      PROVE  tokens[SomeOf(s)] = TokensNum(CHOOSE x \in s : TRUE)
  <2>1. SomeOf(s) \in Requests
    BY <1>4 DEF SomeOf
  <2> QED BY <1>3, <2>1 DEF SomeOf
<1>5. PICK f \in [SUBSET S -> Nat] : IsSum(f, tokens, S)
  BY <1>2, <1>3, SumExists
<1>6. f = Body(f)
  BY <1>4, <1>5 DEF IsSum, SomeOf
<1>7. it = Body(it)
  <2> HIDE DEF Body
  <2> QED BY <1>6
<1>8. IsSum(it, tokens, S)
  <2> HIDE DEF it
  <2> QED BY <1>4, <1>7 DEF IsSum, SomeOf
<1> HIDE DEF it
<1>9. TotalTokens(S) = SumFunctionOnSet(tokens, S)
  BY <1>1, <1>2, <1>3, <1>8, SumIs
<1>10. SumFunctionOnSet(tokens, S) \in Nat
  BY <1>2, <1>3, SumFacts
<1> QED BY <1>9, <1>10

\* What a rank's batches do, as a sum.
workloads(i) == [b \in Batches |-> TotalTokens(running_reqs[<<i, b>>])]

\* So is the work of a rank.
LEMMA WorkloadIs ==
  TypeOK => \A i \in Ranks : CalculatePrefillWorkload(i) \in Nat
<1> SUFFICES ASSUME TypeOK, NEW i \in Ranks
             PROVE  CalculatePrefillWorkload(i) \in Nat
  OBVIOUS
<1> DEFINE w == workloads(i)
           Body(f) == [s \in SUBSET Batches |-> IF s = {} THEN 0
                         ELSE TotalTokens(running_reqs[<<i, CHOOSE x \in s : TRUE>>])
                                + f[s \ {CHOOSE x \in s : TRUE}]]
           it == CHOOSE f : f = Body(f)
<1>1. CalculatePrefillWorkload(i) = it[Batches]
  BY DEF CalculatePrefillWorkload, MapThenSumSet, MapThenFoldSet
<1>2. IsFiniteSet(Batches)
  BY FS_Interval DEF Batches, TypeOK, Configs
<1>3. \A b \in Batches : w[b] = TotalTokens(running_reqs[<<i, b>>]) /\ w[b] \in Nat
  <2> SUFFICES ASSUME NEW b \in Batches
               PROVE  w[b] = TotalTokens(running_reqs[<<i, b>>]) /\ w[b] \in Nat
    OBVIOUS
  <2>1. <<i, b>> \in Slots
    BY Actives
  <2>2. running_reqs[<<i, b>>] \in SUBSET Requests
    BY <2>1, QueueTypes
  <2> QED BY <2>2, TotalTokensIs DEF workloads
<1> HIDE DEF w
<1>4. ASSUME NEW s \in SUBSET Batches, s # {}
      PROVE  w[SomeOf(s)] = TotalTokens(running_reqs[<<i, CHOOSE x \in s : TRUE>>])
  <2>1. SomeOf(s) \in Batches
    BY <1>4 DEF SomeOf
  <2> QED BY <1>3, <2>1 DEF SomeOf
<1>5. PICK f \in [SUBSET Batches -> Nat] : IsSum(f, w, Batches)
  BY <1>2, <1>3, SumExists
<1>6. f = Body(f)
  BY <1>4, <1>5 DEF IsSum, SomeOf
<1>7. it = Body(it)
  <2> HIDE DEF Body
  <2> QED BY <1>6
<1>8. IsSum(it, w, Batches)
  <2> HIDE DEF it
  <2> QED BY <1>4, <1>7 DEF IsSum, SomeOf
<1> HIDE DEF it
<1>9. CalculatePrefillWorkload(i) = SumFunctionOnSet(w, Batches)
  BY <1>1, <1>2, <1>3, <1>8, SumIs
<1>10. SumFunctionOnSet(w, Batches) \in Nat
  <2>1. \A s \in SUBSET Batches : SumFunctionOnSet(w, s) \in Nat
    BY <1>2, <1>3, SumFacts
  <2> QED BY <2>1
<1> QED BY <1>9, <1>10

\* Both, of the state after a step.
LEMMA WorkloadNext ==
  ASSUME TypeOK, UNCHANGED <<config, kv_cached, running_reqs>>
  PROVE  /\ \A S \in SUBSET Requests : TotalTokens(S)' = TotalTokens(S)
         /\ \A i : CalculatePrefillWorkload(i)' = CalculatePrefillWorkload(i)
         /\ \A r : TokensNum(r)' = TokensNum(r)
         /\ \A i : TotalTokens(dp_waiting_reqs[i])' = TotalTokens(dp_waiting_reqs'[i])
<1>1. \A r : TokensNum(r)' = TokensNum(r)
  BY DEF TokensNum
<1>2. \A S : TotalTokens(S)' = TotalTokens(S)
  BY DEF TokensNum, TotalTokens, MapThenSumSet, MapThenFoldSet
<1>3. \A i : CalculatePrefillWorkload(i)' = CalculatePrefillWorkload(i)
  BY DEF TokensNum, TotalTokens, CalculatePrefillWorkload, Batches, MapThenSumSet, MapThenFoldSet
<1>4. \A i : TotalTokens(dp_waiting_reqs[i])' = TotalTokens(dp_waiting_reqs'[i])
  BY DEF TokensNum, TotalTokens, MapThenSumSet, MapThenFoldSet
<1> QED BY <1>1, <1>2, <1>3, <1>4

\* What is compared are numbers.
LEMMA RankTypes ==
  ASSUME TypeOK, NEW dp, dp \in [1..MaxDp -> SUBSET Requests]
  PROVE  /\ \A i \in Ranks : /\ CalculatePrefillWorkload(i) \in Nat
                             /\ TotalTokens(dp[i]) \in Nat
         /\ \A i \in Ranks : \A r \in dp[i] : TokensNum(r) \in Nat
<1>1. \A i \in Ranks : dp[i] \in SUBSET Requests
  BY Actives
<1> QED BY <1>1, WorkloadIs, TotalTokensIs, TokensNumType

\* The property after a step, by the work before it.
LEMMA RankNext ==
  ASSUME TypeOK, TypeOK', UNCHANGED <<config, kv_cached, running_reqs>>,
         \A i, j \in Ranks : \A r \in dp_waiting_reqs'[i] : i # j =>
           CalculatePrefillWorkload(i) + TotalTokens(dp_waiting_reqs'[i])
               - TokensNum(r)
             <= CalculatePrefillWorkload(j) + TotalTokens(dp_waiting_reqs'[j])
  PROVE  NoBetterRank'
<1> DEFINE W == [i \in Ranks' |-> CalculatePrefillWorkload(i)'
                                    + TotalTokens(dp_waiting_reqs[i])']
<1>1. Ranks' = Ranks
  BY DEF Ranks
<1>2. /\ \A i : CalculatePrefillWorkload(i)' = CalculatePrefillWorkload(i)
      /\ \A i : TotalTokens(dp_waiting_reqs[i])' = TotalTokens(dp_waiting_reqs'[i])
      /\ \A r : TokensNum(r)' = TokensNum(r)
  BY WorkloadNext
<1>3. \A i, j \in Ranks' : \A r \in dp_waiting_reqs'[i] :
        i # j => W[i] - TokensNum(r)' <= W[j]
  <2> SUFFICES ASSUME NEW i \in Ranks', NEW j \in Ranks',
                      NEW r \in dp_waiting_reqs'[i], i # j
               PROVE  W[i] - TokensNum(r)' <= W[j]
    OBVIOUS
  <2>1. /\ W[i] = CalculatePrefillWorkload(i)' + TotalTokens(dp_waiting_reqs[i])'
        /\ W[j] = CalculatePrefillWorkload(j)' + TotalTokens(dp_waiting_reqs[j])'
    OBVIOUS
  <2>2. /\ W[i] = CalculatePrefillWorkload(i) + TotalTokens(dp_waiting_reqs'[i])
        /\ W[j] = CalculatePrefillWorkload(j) + TotalTokens(dp_waiting_reqs'[j])
    BY <1>2, <2>1, Zenon
  <2>3. CalculatePrefillWorkload(i) + TotalTokens(dp_waiting_reqs'[i]) - TokensNum(r)
          <= CalculatePrefillWorkload(j) + TotalTokens(dp_waiting_reqs'[j])
    BY <1>1
  <2>4. TokensNum(r)' = TokensNum(r)
    BY <1>2
  <2>5. /\ CalculatePrefillWorkload(i) \in Nat /\ CalculatePrefillWorkload(j) \in Nat
        /\ TotalTokens(dp_waiting_reqs'[i]) \in Nat
        /\ TotalTokens(dp_waiting_reqs'[j]) \in Nat /\ TokensNum(r) \in Nat
    <3>1. dp_waiting_reqs' \in [1..MaxDp -> SUBSET Requests]
      BY DEF TypeOK
    <3> QED BY <1>1, <3>1, RankTypes
  <2> HIDE DEF W
  <2> QED BY <2>2, <2>3, <2>4, <2>5
<1> QED BY <1>3, Zenon DEF NoBetterRank

\* The balance itself.
LEMMA ADPBalances ==
  ASSUME TypeOK, TypeOK', NEW b \in Batches, BalanceADPRequests(b)
  PROVE  NoBetterRank'
<1> DEFINE pool == ADPPool(b)
<1>0. UNCHANGED <<config, kv_cached, running_reqs>>
  BY DEF BalanceADPRequests, requests
<1>2. Ranks \subseteq 1..MaxDp
  BY Actives
<1>3. pool \in SUBSET Requests /\ IsFiniteSet(pool) /\ IsFiniteSet(Requests)
  <2>1. pool \in SUBSET Requests /\ IsFiniteSet(Requests)
    BY PoolTypes, BatchSchedulerAssumption
  <2> QED BY <2>1, FS_Subset
<1>4. dp_waiting_reqs' \in [1..MaxDp -> SUBSET Requests]
  BY DEF TypeOK
<1> SUFFICES ASSUME NEW i \in Ranks, NEW j \in Ranks, NEW r \in dp_waiting_reqs'[i], i # j
             PROVE  CalculatePrefillWorkload(i) + TotalTokens(dp_waiting_reqs'[i])
                        - TokensNum(r)
                      <= CalculatePrefillWorkload(j) + TotalTokens(dp_waiting_reqs'[j])
  BY <1>0, RankNext
<1> HIDE DEF pool
<1>5. CASE ~ShouldProceedPrefill(b)
  <2>1. dp_waiting_reqs'[i] = {}
    BY <1>2, <1>5 DEF BalanceADPRequests
  <2> QED BY <2>1
<1>6. CASE ShouldProceedPrefill(b)
  <2>1. PICK rank \in [pool -> Ranks] :
           /\ DistributeRequestsByToken(pool, rank)
           /\ dp_waiting_reqs' = Distributed(pool, rank)
    BY <1>6 DEF BalanceADPRequests, pool
  <2>2. PICK order \in Orders(pool) : \A q \in pool :
          LET placed == {s \in pool : order[s] < order[q]}
              workload == [k \in Ranks |-> CalculatePrefillWorkload(k)
                       + TotalTokens({s \in placed : rank[s] = k})]
          IN  \A k \in Ranks : workload[rank[q]] <= workload[k]
    BY <2>1 DEF DistributeRequestsByToken
  <2> DEFINE n == Cardinality(pool)
             w == tokens
             base == [k \in Ranks |-> CalculatePrefillWorkload(k)]
             Of(k) == {s \in pool : rank[s] = k}
  <2>3. \A k \in Ranks : dp_waiting_reqs'[k] = Of(k)
    BY <1>2, <2>1 DEF Distributed
  <2>4. n \in Nat /\ order \in [pool -> 0..n]
    <3>1. n \in Nat
      BY <1>3, FS_CardinalityType
    <3>2. order \in [pool -> 1..n]
      BY DEF Orders
    <3> QED BY <3>1, <3>2
  <2>5. /\ \A q, s \in pool : order[q] = order[s] => q = s
        /\ \A q, s \in pool : TokensNum(s) > TokensNum(q) => order[s] < order[q]
    <3>1. DOMAIN order = pool
      BY <2>4
    <3>2. Sorted(order) /\ \A q, s \in pool : order[q] = order[s] => q = s
      BY DEF Orders
    <3> QED BY <3>1, <3>2 DEF Sorted
  <2>6. \A q \in pool : w[q] = TokensNum(q) /\ w[q] \in Nat
    BY <1>3, TokensNumType DEF tokens
  <2>7. \A k \in Ranks : base[k] = CalculatePrefillWorkload(k) /\ base[k] \in Nat
    BY WorkloadIs
  <2>8. \A S \in SUBSET pool : TotalTokens(S) = SumFunctionOnSet(w, S)
    BY <1>3, TotalTokensIs
  <2>9. ASSUME NEW q \in pool, NEW k \in Ranks
        PROVE  base[rank[q]]
                 + SumFunctionOnSet(w, {s \in pool : order[s] < order[q]
                                                     /\ rank[s] = rank[q]})
                 <= base[k]
                 + SumFunctionOnSet(w, {s \in pool : order[s] < order[q]
                                                     /\ rank[s] = k})
    <3> DEFINE placed == {s \in pool : order[s] < order[q]}
               workload == [l \in Ranks |-> CalculatePrefillWorkload(l)
                       + TotalTokens({s \in placed : rank[s] = l})]
    <3>1. workload[rank[q]] <= workload[k]
      BY <2>2
    <3>2. \A l \in Ranks : workload[l] = CalculatePrefillWorkload(l)
                       + TotalTokens({s \in placed : rank[s] = l})
      OBVIOUS
    <3>3. \A l : {s \in placed : rank[s] = l}
                   = {s \in pool : order[s] < order[q] /\ rank[s] = l}
      OBVIOUS
    <3> HIDE DEF placed, workload
    <3>4. \A l \in Ranks : workload[l] = base[l] +
            SumFunctionOnSet(w, {s \in pool : order[s] < order[q] /\ rank[s] = l})
      <4> SUFFICES ASSUME NEW l \in Ranks
                   PROVE  workload[l] = base[l] +
            SumFunctionOnSet(w, {s \in pool : order[s] < order[q] /\ rank[s] = l})
        OBVIOUS
      <4>1. {s \in pool : order[s] < order[q] /\ rank[s] = l} \in SUBSET pool
        OBVIOUS
      <4>2. TotalTokens({s \in pool : order[s] < order[q] /\ rank[s] = l})
              = SumFunctionOnSet(w, {s \in pool : order[s] < order[q] /\ rank[s] = l})
        BY <2>8, <4>1
      <4> QED BY <2>7, <3>2, <3>3, <4>2
    <3>5. rank[q] \in Ranks
      BY <2>1
    <3> QED BY <3>1, <3>4, <3>5
  <2> HIDE DEF n, w, base
  <2>10. \A q, s \in pool : w[s] > w[q] => order[s] < order[q]
    BY <2>5, <2>6
  <2>11. NoneBetter(pool, Ranks, w, base, rank)
    <3>1. \A q \in pool : w[q] \in Nat
      BY <2>6
    <3>2. \A k \in Ranks : base[k] \in Nat
      BY <2>7
    <3>3. LeastWork(pool, Ranks, w, base, rank, order)
      BY <2>9 DEF LeastWork
    <3>4. \A q, s \in pool : order[q] = order[s] => q = s
      BY <2>5
    <3> HIDE DEF pool
    <3> QED BY <1>3, <2>4, <2>10, <3>1, <3>2, <3>3, <3>4, GreedyBalances
  <2>12. r \in pool /\ rank[r] = i
    BY <2>3
  <2>13. Of(i) \in SUBSET pool /\ Of(j) \in SUBSET pool
    OBVIOUS
  <2>14. /\ TotalTokens(dp_waiting_reqs'[i]) = SumFunctionOnSet(w, Of(i))
         /\ TotalTokens(dp_waiting_reqs'[j]) = SumFunctionOnSet(w, Of(j))
    BY <2>3, <2>8, <2>13
  <2>15. base[i] + SumFunctionOnSet(w, Of(i)) - w[r] <= base[j] + SumFunctionOnSet(w, Of(j))
    BY <2>11, <2>12 DEF NoneBetter
  <2> QED BY <2>6, <2>7, <2>12, <2>14, <2>15
<1> QED BY <1>5, <1>6

\* What the balance looks at does not change until the strategies run.
LEMMA RankFrame ==
  ASSUME TypeOK, TypeOK', NoBetterRank,
         UNCHANGED <<config, kv_cached, running_reqs, dp_waiting_reqs, schedule>>
  PROVE  NoBetterRank'
<1>1. CASE schedule.at = "strategies" /\ config.enable_balance
  <2> DEFINE W == [i \in Ranks |-> CalculatePrefillWorkload(i)
                                     + TotalTokens(dp_waiting_reqs[i])]
  <2>1. \A i, j \in Ranks : \A r \in dp_waiting_reqs[i] :
          i # j => W[i] - TokensNum(r) <= W[j]
    BY <1>1 DEF NoBetterRank
  <2>2. \A i \in Ranks :
          W[i] = CalculatePrefillWorkload(i) + TotalTokens(dp_waiting_reqs[i])
    OBVIOUS
  <2> HIDE DEF W
  <2>3. \A i, j \in Ranks : \A r \in dp_waiting_reqs'[i] : i # j =>
           CalculatePrefillWorkload(i) + TotalTokens(dp_waiting_reqs'[i])
               - TokensNum(r)
             <= CalculatePrefillWorkload(j) + TotalTokens(dp_waiting_reqs'[j])
    <3> SUFFICES ASSUME NEW i \in Ranks, NEW j \in Ranks,
                        NEW r \in dp_waiting_reqs'[i], i # j
                 PROVE  CalculatePrefillWorkload(i) + TotalTokens(dp_waiting_reqs'[i])
                            - TokensNum(r)
                          <= CalculatePrefillWorkload(j)
                               + TotalTokens(dp_waiting_reqs'[j])
      OBVIOUS
    <3>1. W[i] - TokensNum(r) <= W[j]
      BY <2>1
    <3>2. /\ W[i] = CalculatePrefillWorkload(i) + TotalTokens(dp_waiting_reqs'[i])
          /\ W[j] = CalculatePrefillWorkload(j) + TotalTokens(dp_waiting_reqs'[j])
      BY <2>2
    <3>3. /\ CalculatePrefillWorkload(i) \in Nat /\ CalculatePrefillWorkload(j) \in Nat
          /\ TotalTokens(dp_waiting_reqs'[i]) \in Nat
          /\ TotalTokens(dp_waiting_reqs'[j]) \in Nat /\ TokensNum(r) \in Nat
      <4>1. dp_waiting_reqs' \in [1..MaxDp -> SUBSET Requests]
        BY DEF TypeOK
      <4> QED BY <4>1, RankTypes
    <3> QED BY <3>1, <3>2, <3>3
  <2> QED BY <2>3, RankNext
<1>2. CASE ~(schedule.at = "strategies" /\ config.enable_balance)
  BY <1>2 DEF NoBetterRank
<1> QED BY <1>1, <1>2

\* Every step.
LEMMA RankStep == TypeOK /\ TypeOK' /\ NoBetterRank /\ [Next]_vars => NoBetterRank'
<1> SUFFICES ASSUME TypeOK, TypeOK', NoBetterRank, [Next]_vars PROVE NoBetterRank'
  OBVIOUS
<1> DEFINE still == UNCHANGED <<config, kv_cached, running_reqs, dp_waiting_reqs,
                                schedule>>
<1>1. ASSUME schedule'.at # "strategies" PROVE NoBetterRank'
  BY <1>1 DEF NoBetterRank
<1>2. CASE \E G \in Groups : AddInferRequest(G)
  <2>1. still
    BY <1>2 DEF AddInferRequest, batch_states
  <2> QED BY <2>1, RankFrame
<1>3. CASE \E r \in Requests : StopRequest(r)
  <2>1. still
    BY <1>3 DEF StopRequest, queues, batch_states
  <2> QED BY <2>1, RankFrame
<1>4. CASE MaxWaitingTimePasses
  <2>1. still
    BY <1>4 DEF MaxWaitingTimePasses, requests, queues, batch_states
  <2> QED BY <2>1, RankFrame
<1>5. ASSUME NEW b \in Batches, LoopStep(b) PROVE NoBetterRank'
  <2>1. CASE WaitUntilHaveReqs(b)
    <3>1. still
      BY <2>1 DEF WaitUntilHaveReqs, requests, queues, batch_states
    <3> QED BY <3>1, RankFrame
  <2>2. CASE CollectWaitingReqs(b)
    BY <1>1, <2>2 DEF CollectWaitingReqs
  <2>3. CASE BalanceWaitingReqs(b)
    <3>1. ~config.enable_balance
      BY <2>3 DEF BalanceWaitingReqs, TypeOK, Configs
    <3>2. config' = config
      BY <2>3 DEF BalanceWaitingReqs
    <3> QED BY <3>1, <3>2 DEF NoBetterRank
  <2>4. CASE BalanceADPRequests(b)
    BY <2>4, ADPBalances
  <2>5. CASE ScheduleStrategies(b)
    BY <1>1, <2>5 DEF ScheduleStrategies, NoSchedule
  <2>6. CASE TryToLaunchPlannedScheduleOutput(b)
    BY <1>1, <2>6 DEF TryToLaunchPlannedScheduleOutput, MutexIsFree, NoSchedule
  <2> QED BY <1>5, <2>1, <2>2, <2>3, <2>4, <2>5, <2>6 DEF LoopStep
<1>6. ASSUME NEW b \in Batches, UpdateWithGenerationResult(b) PROVE NoBetterRank'
  BY <1>1, <1>6 DEF UpdateWithGenerationResult, MutexIsFree, NoSchedule
<1>7. CASE UNCHANGED vars
  <2>1. still
    BY <1>7 DEF vars, requests, queues, batch_states
  <2> QED BY <2>1, RankFrame
<1> QED BY <1>2, <1>3, <1>4, <1>5, <1>6, <1>7 DEF Next

\* DistributeRequestsByToken: no request would meet less work on another rank,
\* for any number of requests of any lengths, ranks and batches.
THEOREM NoBetterRankCorrect == Spec => []NoBetterRank
<1>1. Init => PlacesInv /\ HeldInv /\ NoBetterRank
  BY PlacesInit, HeldInit DEF Init, NoSchedule, NoBetterRank
<1>2. (PlacesInv /\ HeldInv /\ NoBetterRank) /\ [Next]_vars
        => (PlacesInv /\ HeldInv /\ NoBetterRank)'
  BY PlacesStep, HeldStep, RankStep DEF PlacesInv
<1> QED BY <1>1, <1>2, PTL DEF Spec

================================================================================

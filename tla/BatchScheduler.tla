---------------------------- MODULE BatchScheduler ----------------------------
(***************************************************************************)
(* The queues of the batch scheduler: where a request waits from           *)
(* AddInferRequest until its last token, over several data-parallel ranks  *)
(* (dp) and several pipelined batches (pp).  Clients add and stop requests, *)
(* one loop thread per batch waits for work, schedules and launches, and   *)
(* results come back.  schedule_mutex_ makes Schedule, launch and return    *)
(* exclude each other; waiting_reqs_ has a mutex of its own, so that       *)
(* AddInferRequest and IsIdle run between the steps of one Schedule.       *)
(*                                                                         *)
(* The strategies that fill a batch and the loop that calls the scheduler  *)
(* are not in the repository.  Left out: the transfer queue (it belongs to *)
(* separate prefill and decode), mock requests (expert_world_size = 1) and *)
(* the balancing of pipelined batches (NO_WB, the default).                *)
(***************************************************************************)
EXTENDS Integers, Sequences, FiniteSets, FiniteSetsExt

CONSTANTS
  Requests,              \* numbers
  Groups,                \* what clients add: the outputs wanted of one prompt,
                         \* whose length is the least number in the group
  Stoppable,             \* requests that a client may stop (bound)
  Steps,                 \* forward steps a request takes
  MaxDp, MaxPp,          \* largest numbers of ranks and of batches (bound)
  MaxBatchStates,        \* largest number of ranks times batches (bound)
  max_token_len,
  max_waiting_queue_len,
  max_waiting_steps,
  MaxPressure            \* how often a strategy lets a request wait (bound)

ASSUME BatchSchedulerAssumption ==
  /\ Requests \subseteq Nat \ {0}
  /\ IsFiniteSet(Requests)
  /\ Groups \subseteq SUBSET Requests
  /\ UNION Groups = Requests
  /\ {} \notin Groups
  /\ \A G, H \in Groups : G = H \/ G \cap H = {}
  /\ Stoppable \subseteq Requests
  /\ Steps \in Nat \ {0}
  /\ MaxDp \in Nat \ {0} /\ MaxPp \in Nat \ {0}
  /\ MaxBatchStates \in Nat \ {0}
  /\ max_token_len \in Nat
  /\ max_waiting_queue_len \in Nat
  /\ max_waiting_steps \in Nat
  /\ MaxPressure \in Nat

VARIABLES
  config,           \* the configuration, fixed at start-up
  status,           \* what the client knows of each request
  stopped,          \* IsStopped()
  steps_left,       \* forward steps until the last token
  kv_cached,        \* requests whose prompt is in the KV cache
  pressure          \* how often a strategy let a request wait

requests == <<status, stopped, steps_left, kv_cached, pressure>>

VARIABLES
  waiting_reqs,         \* waiting_reqs_, under waiting_reqs_mutex_
  dp_waiting_reqs,      \* dp_waiting_reqs_ of each rank
  waiting_queue,        \* the BatchState of each rank and batch: requests
  decoding_queue,       \*   without KV, requests between two steps,
  running_reqs,         \*   requests of the newest ScheduleOutput,
  async_recomputed_reqs \*   requests taken out while a step is under way

batch_states == <<waiting_queue, decoding_queue, running_reqs,
                  async_recomputed_reqs>>
queues == <<waiting_reqs, dp_waiting_reqs, batch_states>>

VARIABLES
  loop,             \* what each batch's loop thread does
  schedule,         \* who is inside Schedule, where, with what local variable
  live_req_ids,     \* live_req_ids of each newest ScheduleOutput
  outputs,          \* per batch, launched outputs that have not come back
  resources,        \* requests whose per-request state the executor keeps
  current_qps,      \* "high": above min_qps_for_waiting
  elapsed,          \* max_waiting_time_in_ms is over
  adp_balance_waiting_iters,
  held              \* history: how often in a row each request was held back

adp == <<elapsed, adp_balance_waiting_iters, held>>
vars == <<config, requests, queues, loop, schedule, live_req_ids, outputs,
          resources, current_qps, adp>>

\* A switch that has no effect beside the others is left off: the balance needs
\* two ranks, build-ahead one.
Configs ==
  {c \in [attn_data_parallel_size : 1..MaxDp,
          max_pp_batch_num : 1..MaxPp,
          enable_balance : BOOLEAN,
          enable_executor_build_ahead : BOOLEAN] :
     /\ c.attn_data_parallel_size * c.max_pp_batch_num <= MaxBatchStates
     /\ c.enable_balance => c.attn_data_parallel_size > 1
     /\ c.enable_executor_build_ahead => c.attn_data_parallel_size = 1}

Slots == (1..MaxDp) \X (1..MaxPp)
Ranks == 1..config.attn_data_parallel_size
Batches == 1..config.max_pp_batch_num

NoSchedule == [batch |-> 0, at |-> "none", collected |-> {}]
EmptyQueues == [s \in Slots |-> {}]

Init ==
  /\ config \in Configs
  /\ status = [r \in Requests |-> "new"]
  /\ stopped = {}
  /\ steps_left = [r \in Requests |-> Steps]
  /\ kv_cached = {}
  /\ pressure = 0
  /\ waiting_reqs = {}
  /\ dp_waiting_reqs = [i \in 1..MaxDp |-> {}]
  /\ waiting_queue = EmptyQueues
  /\ decoding_queue = EmptyQueues
  /\ running_reqs = EmptyQueues
  /\ async_recomputed_reqs = EmptyQueues
  /\ loop = [b \in 1..MaxPp |-> "wait"]
  /\ schedule = NoSchedule
  /\ live_req_ids = EmptyQueues
  /\ outputs = [b \in 1..MaxPp |-> <<>>]
  /\ resources = {}
  /\ current_qps = "low"
  /\ elapsed = FALSE
  /\ adp_balance_waiting_iters = 0
  /\ held = [r \in Requests |-> 0]

-----------------------------------------------------------------------------
(***************************************************************************)
(* Start-up: whether build-ahead is on.  The conditions that no definition *)
(* here depends on (no xgrammar, no flexible caching, ...) are met.        *)
(***************************************************************************)

IsEnabledAtStartup_AnyPp ==
  /\ config.enable_executor_build_ahead
  /\ config.attn_data_parallel_size = 1

IsEnabledAtStartup ==
  /\ config.enable_executor_build_ahead
  /\ config.attn_data_parallel_size = 1
  /\ config.max_pp_batch_num = 1

max_depth == IF IsEnabledAtStartup THEN 2 ELSE 1

\* Only the fast path frees what is not live (drafts are on: IsMtpSerialFastPath).
FreesInactive == IsEnabledAtStartup

-----------------------------------------------------------------------------
(***************************************************************************)
(* Clients.                                                                *)
(***************************************************************************)

InputLen(G) == Min(G)

CheckRequestExceedLength(G) == InputLen(G) > max_token_len

QueueIsFull(G) ==
  Cardinality(waiting_reqs) + Cardinality(G) > max_waiting_queue_len

\* A group is queued or refused as a whole.  UpdateQPS may change the rate, which
\* is left as it is where nothing reads it.
AddInferRequest(G) ==
  /\ \A r \in G : status[r] = "new"
  /\ IF CheckRequestExceedLength(G)
     THEN /\ status' = [r \in Requests |-> IF r \in G THEN "refused" ELSE status[r]]
          /\ UNCHANGED <<waiting_reqs, current_qps>>
     ELSE /\ current_qps' \in (IF config.enable_balance THEN {"low", "high"}
                                                       ELSE {current_qps})
          /\ IF QueueIsFull(G)
             THEN /\ status' = [r \in Requests |->
                       IF r \in G THEN "refused" ELSE status[r]]
                  /\ UNCHANGED waiting_reqs
             ELSE /\ status' = [r \in Requests |->
                       IF r \in G THEN "accepted" ELSE status[r]]
                  /\ waiting_reqs' = waiting_reqs \cup G
  /\ UNCHANGED <<config, stopped, steps_left, kv_cached, pressure,
                 dp_waiting_reqs, batch_states, loop, schedule, live_req_ids,
                 outputs, resources, adp>>

\* A client goes away.
StopRequest(r) ==
  /\ r \in Stoppable
  /\ status[r] = "accepted"
  /\ r \notin stopped
  /\ stopped' = stopped \cup {r}
  /\ UNCHANGED <<config, status, steps_left, kv_cached, pressure, queues, loop,
                 schedule, live_req_ids, outputs, resources, current_qps, adp>>

-----------------------------------------------------------------------------
(***************************************************************************)
(* The loop thread of batch b: sleep while idle.                           *)
(***************************************************************************)

IsIdle_DecodingOnly(b) ==
  /\ waiting_reqs = {}
  /\ \A i \in Ranks :
       decoding_queue[<<i, b>>] = {} \/ async_recomputed_reqs[<<i, b>>] # {}

IsIdle(b) ==
  /\ waiting_reqs = {}
  /\ \A i \in Ranks :
       \/ decoding_queue[<<i, b>>] = {} /\ waiting_queue[<<i, b>>] = {}
       \/ async_recomputed_reqs[<<i, b>>] # {}

WaitUntilHaveReqs(b) ==
  /\ loop[b] = "wait"
  /\ ~IsIdle(b)
  /\ loop' = [loop EXCEPT ![b] = "schedule"]
  /\ UNCHANGED <<config, requests, queues, schedule, live_req_ids, outputs,
                 resources, current_qps, adp>>

-----------------------------------------------------------------------------
(***************************************************************************)
(* Schedule, first part: collect waiting_reqs_ under its mutex.            *)
(***************************************************************************)

MutexIsFree == schedule = NoSchedule

CollectWaitingReqs(b) ==
  /\ loop[b] = "schedule"
  /\ MutexIsFree
  /\ schedule' = [batch |-> b, at |-> "balance", collected |-> waiting_reqs]
  /\ waiting_reqs' = {}
  /\ UNCHANGED <<config, requests, dp_waiting_reqs, batch_states, loop,
                 live_req_ids, outputs, resources, current_qps, adp>>

-----------------------------------------------------------------------------
(***************************************************************************)
(* Schedule, second part: hand what waits to the ranks.                    *)
(***************************************************************************)

AtBalance(b) == schedule.batch = b /\ schedule.at = "balance"
Balanced(b) == schedule' = [batch |-> b, at |-> "strategies", collected |-> {}]

AllDpWaiting == UNION {dp_waiting_reqs[i] : i \in Ranks}

\* Tokens still to be forwarded, at least one.
TokensNum(r) ==
  IF r \in kv_cached THEN 1
  ELSE InputLen(CHOOSE G \in Groups : r \in G)
TotalTokens(S) == MapThenSumSet(TokensNum, S)

Distributed(pool, rank) ==
  [i \in 1..MaxDp |-> {r \in pool : rank[r] = i}]

\* BalanceReqsAlgo redistributes over the ranks, in whatever way.
BalanceWaitingReqs(b) ==
  /\ AtBalance(b)
  /\ ~(config.enable_balance /\ config.attn_data_parallel_size > 1)
  /\ IF schedule.collected = {}
     THEN UNCHANGED dp_waiting_reqs
     ELSE LET pool == schedule.collected \cup AllDpWaiting
          IN  \E rank \in [pool -> Ranks] :
                dp_waiting_reqs' = Distributed(pool, rank)
  /\ Balanced(b)
  /\ UNCHANGED <<config, requests, waiting_reqs, batch_states, loop,
                 live_req_ids, outputs, resources, current_qps, adp>>

\* Everything that waits, the requests of this batch that wait for blocks too.
ADPPool(b) ==
  schedule.collected \cup AllDpWaiting
    \cup UNION {waiting_queue[<<i, b>>] : i \in Ranks}

EmptiedWaitingQueues_Kept(b) == waiting_queue
EmptiedWaitingQueues(b) ==
  [s \in Slots |-> IF s[2] = b THEN {} ELSE waiting_queue[s]]

IsADPBalanceTimeout_Late ==
  \/ current_qps = "high"
  \/ elapsed /\ adp_balance_waiting_iters > 0
  \/ adp_balance_waiting_iters > max_waiting_steps

\* A high rate sets both limits to zero.
IsADPBalanceTimeout ==
  \/ current_qps = "high"
  \/ elapsed /\ adp_balance_waiting_iters > 0
  \/ adp_balance_waiting_iters >= max_waiting_steps

ShouldProceedPrefill(b) ==
  \/ Cardinality(ADPPool(b)) >= config.attn_data_parallel_size
  \/ \E i \in Ranks : running_reqs[<<i, b>>] = {}
  \/ IsADPBalanceTimeout

CalculatePrefillWorkload(i) ==
  MapThenSumSet(LAMBDA b : TotalTokens(running_reqs[<<i, b>>]), Batches)

\* std::sort leaves the order of equals open.
Sorted_ShortestFirst(order) ==
  \A r, s \in DOMAIN order : TokensNum(s) < TokensNum(r) => order[s] < order[r]
Sorted(order) ==
  \A r, s \in DOMAIN order : TokensNum(s) > TokensNum(r) => order[s] < order[r]

Orders(pool) ==
  {order \in [pool -> 1..Cardinality(pool)] :
     Sorted(order) /\ \A r, s \in pool : order[r] = order[s] => r = s}

\* Each request goes to the first rank with the least workload when its turn comes.
DistributeRequestsByToken(pool, rank) ==
  \E order \in Orders(pool) : \A r \in pool :
    LET placed == {s \in pool : order[s] < order[r]}
        workload == [i \in Ranks |-> CalculatePrefillWorkload(i)
                       + TotalTokens({s \in placed : rank[s] = i})]
    IN  \A i \in Ranks : /\ workload[rank[r]] <= workload[i]
                         /\ i < rank[r] => workload[rank[r]] < workload[i]

BalanceADPRequests(b) ==
  /\ AtBalance(b)
  /\ config.enable_balance
  /\ config.attn_data_parallel_size > 1
  /\ LET pool == ADPPool(b)
     IN  IF ShouldProceedPrefill(b)
         THEN /\ \E rank \in [pool -> Ranks] :
                   /\ DistributeRequestsByToken(pool, rank)
                   /\ dp_waiting_reqs' = Distributed(pool, rank)
              /\ adp_balance_waiting_iters' = 0
              /\ held' = [r \in Requests |-> IF r \in pool THEN 0 ELSE held[r]]
              /\ UNCHANGED <<waiting_reqs, elapsed>>
         ELSE /\ waiting_reqs' = waiting_reqs \cup pool
              /\ dp_waiting_reqs' = [i \in 1..MaxDp |-> {}]
              /\ adp_balance_waiting_iters' = adp_balance_waiting_iters + 1
              /\ elapsed' = (elapsed /\ adp_balance_waiting_iters > 0)
              /\ held' = [r \in Requests |->
                   IF r \in pool THEN held[r] + 1 ELSE held[r]]
  /\ waiting_queue' = EmptiedWaitingQueues(b)
  /\ Balanced(b)
  /\ UNCHANGED <<config, requests, decoding_queue, running_reqs,
                 async_recomputed_reqs, loop, live_req_ids, outputs, resources,
                 current_qps>>

MaxWaitingTimePasses ==
  /\ adp_balance_waiting_iters > 0
  /\ ~elapsed
  /\ elapsed' = TRUE
  /\ UNCHANGED <<config, requests, queues, loop, schedule, live_req_ids,
                 outputs, resources, current_qps, adp_balance_waiting_iters,
                 held>>

-----------------------------------------------------------------------------
(***************************************************************************)
(* Schedule, last part: the strategy of each rank fills its batch.         *)
(***************************************************************************)

InFlight(b) == UNION {outputs[b][n] : n \in DOMAIN outputs[b]}

Without(queue, S) == [s \in Slots |-> queue[s] \ S]
InBatch(queue, b) == UNION {queue[<<i, b>>] : i \in Ranks}

\* Stopped requests with no step under way leave for good.
Finish(S) ==
  status' = [r \in Requests |-> IF r \in S THEN "finished" ELSE status[r]]

FillLiveReqIds_NoDecoding(running, decoding, waiting, async) ==
  (running \cup waiting \cup async) \ stopped
FillLiveReqIds(running, decoding, waiting, async) ==
  (running \cup decoding \cup waiting \cup async) \ stopped

\* admitted: put into the batch; recomputed: lose their KV and wait again;
\* async: taken out of the batch while a step is under way.
Strategies(b, admitted, recomputed, async) ==
  LET merged == [s \in Slots |-> IF s[2] = b
                   THEN waiting_queue[s] \cup dp_waiting_reqs[s[1]]
                   ELSE waiting_queue[s]]
      gone == (InBatch(merged, b) \cup InBatch(decoding_queue, b)
                 \cup InBatch(running_reqs, b)) \cap (stopped \ InFlight(b))
      Here(s, S) == IF s[2] = b THEN S ELSE {}
  IN  /\ running_reqs' = [s \in Slots |->
           (running_reqs[s] \ Here(s, async \cup gone))
             \cup Here(s, admitted \cap (merged[s] \cup decoding_queue[s]))]
      /\ waiting_queue' = [s \in Slots |->
           (merged[s] \ Here(s, admitted \cup gone))
             \cup Here(s, recomputed \cap decoding_queue[s])]
      /\ decoding_queue' = [s \in Slots |->
           decoding_queue[s] \ Here(s, admitted \cup recomputed \cup gone)]
      /\ async_recomputed_reqs' = [s \in Slots |->
           async_recomputed_reqs[s] \cup Here(s, async \cap running_reqs[s])]
      /\ Finish(gone)
      /\ kv_cached' = kv_cached \ (recomputed \cup gone)
      /\ resources' = resources \ (recomputed \cup gone)

ScheduleStrategies(b) ==
  LET decoding == InBatch(decoding_queue, b) \ stopped
      available == (decoding \cup AllDpWaiting \cup InBatch(waiting_queue, b))
                     \ stopped
      underway == InBatch(running_reqs, b) \cap (InFlight(b) \ stopped)
  IN  /\ schedule.batch = b /\ schedule.at = "strategies"
      /\ \/ Strategies(b, available, {}, {}) /\ UNCHANGED pressure
         \/ /\ pressure < MaxPressure
            /\ pressure' = pressure + 1
            /\ \E r \in available \cup underway :
               \E recomputed \in {{}, {r} \cap decoding} :
                 Strategies(b, available \ {r}, recomputed, {r} \cap underway)
      /\ dp_waiting_reqs' = [i \in 1..MaxDp |-> {}]
      /\ live_req_ids' = [s \in Slots |-> IF s[2] = b
           THEN FillLiveReqIds(running_reqs'[s], decoding_queue'[s],
                               waiting_queue'[s], async_recomputed_reqs'[s])
           ELSE live_req_ids[s]]
      /\ loop' = [loop EXCEPT ![b] = "launch"]
      /\ schedule' = NoSchedule
      /\ UNCHANGED <<config, stopped, steps_left, waiting_reqs, outputs,
                     current_qps, adp>>

-----------------------------------------------------------------------------
(***************************************************************************)
(* Launch and return.                                                      *)
(***************************************************************************)

Launching(b) == InBatch(running_reqs, b) \ stopped
StoppedReqs(b) == InBatch(running_reqs, b) \cap (stopped \ InFlight(b))

InflightNum(r, b) == Cardinality({n \in DOMAIN outputs[b] : r \in outputs[b][n]})

IsLaunchable(b) ==
  /\ Launching(b) # {}
  /\ \A r \in Launching(b) : InflightNum(r, b) < max_depth

PipelineFull(b) == IsEnabledAtStartup /\ Len(outputs[b]) >= 2

\* ProcessScheduleOutput: the executor takes outputs in the order they are sent.
AfterProcess(b) ==
  LET live == InBatch(live_req_ids, b)
  IN  (IF FreesInactive /\ live # {} THEN resources \cap live ELSE resources)
        \cup Launching(b)

\* Every stopped request is dropped from the planned output, before the depth of
\* the pipeline is asked: Launching leaves them all out, and no later plan names
\* one again. running_reqs is the batch's own list, which the drop does not touch:
\* a request leaves it when the caller finishes it, here, or, with a step of it
\* under way, when that step is back.
TryToLaunchPlannedScheduleOutput(b) ==
  /\ loop[b] = "launch"
  /\ MutexIsFree
  /\ \/ /\ IsLaunchable(b)
        /\ ~PipelineFull(b)
        /\ outputs' = [outputs EXCEPT ![b] = Append(@, Launching(b))]
        /\ resources' = AfterProcess(b) \ StoppedReqs(b)
        /\ loop' = [loop EXCEPT ![b] = "wait"]
     \/ /\ IsLaunchable(b)
        /\ PipelineFull(b)
        /\ resources' = resources \ StoppedReqs(b)
        /\ UNCHANGED <<outputs, loop>>
     \/ /\ Launching(b) = {}
        /\ resources' = resources \ StoppedReqs(b)
        /\ loop' = [loop EXCEPT ![b] = "wait"]
        /\ UNCHANGED outputs
  /\ running_reqs' = Without(running_reqs, StoppedReqs(b))
  /\ Finish(StoppedReqs(b))
  /\ kv_cached' = kv_cached \ StoppedReqs(b)
  /\ UNCHANGED <<config, stopped, steps_left, pressure, waiting_reqs,
                 dp_waiting_reqs, waiting_queue, decoding_queue,
                 async_recomputed_reqs, schedule, live_req_ids, current_qps, adp>>

\* UpdateRunningRequests: a request whose newest step is back waits for its next
\* one, unless that is planned; one that was taken out is recovered or
\* recomputed; one that has its last token is stopped, and done when no further
\* step of it is under way.
UpdateWithGenerationResult(b) ==
  /\ MutexIsFree
  /\ outputs[b] # <<>>
  /\ LET back == Head(outputs[b])
         rest == Tail(outputs[b])
         alive == back \ stopped
         ended == {r \in alive : steps_left[r] = 1}
         drained == {r \in back : \A n \in DOMAIN rest : r \notin rest[n]}
         gone == drained \cap (stopped \cup ended)
         idle == IF loop[b] = "launch" THEN {} ELSE drained \ gone
         taken == InBatch(async_recomputed_reqs, b) \cap (drained \ gone)
         In(s, S) == IF s[2] = b THEN S ELSE {}
     IN  \E recovered \in SUBSET taken :
           /\ outputs' = [outputs EXCEPT ![b] = rest]
           /\ stopped' = stopped \cup ended
           /\ steps_left' = [r \in Requests |->
                IF r \in alive THEN steps_left[r] - 1 ELSE steps_left[r]]
           /\ running_reqs' = [s \in Slots |-> running_reqs[s] \ In(s, idle \cup gone)]
           /\ decoding_queue' = [s \in Slots |-> decoding_queue[s]
                \cup In(s, (running_reqs[s] \cap idle)
                             \cup (async_recomputed_reqs[s] \cap recovered))]
           /\ waiting_queue' = [s \in Slots |-> waiting_queue[s]
                \cup In(s, async_recomputed_reqs[s] \cap (taken \ recovered))]
           /\ async_recomputed_reqs' =
                [s \in Slots |-> async_recomputed_reqs[s] \ In(s, taken \cup gone)]
           /\ Finish(gone)
           /\ kv_cached' = (kv_cached \cup alive) \ (gone \cup (taken \ recovered))
           /\ resources' = resources \ (gone \cup (taken \ recovered))
  /\ UNCHANGED <<config, pressure, waiting_reqs, dp_waiting_reqs, loop,
                 schedule, live_req_ids, current_qps, adp>>

-----------------------------------------------------------------------------

LoopStep(b) ==
  \/ WaitUntilHaveReqs(b)
  \/ CollectWaitingReqs(b)
  \/ BalanceWaitingReqs(b)
  \/ BalanceADPRequests(b)
  \/ ScheduleStrategies(b)
  \/ TryToLaunchPlannedScheduleOutput(b)

Next ==
  \/ \E G \in Groups : AddInferRequest(G)
  \/ \E r \in Requests : StopRequest(r)
  \/ MaxWaitingTimePasses
  \/ \E b \in Batches : LoopStep(b) \/ UpdateWithGenerationResult(b)

Fairness ==
  \A b \in 1..MaxPp :
    /\ WF_vars(b \in Batches /\ LoopStep(b))
    /\ WF_vars(b \in Batches /\ UpdateWithGenerationResult(b))

Spec == Init /\ [][Next]_vars /\ Fairness

-----------------------------------------------------------------------------
(***************************************************************************)
(* Properties.                                                             *)
(***************************************************************************)

\* The types, and the bound on the rounds of accumulation.
TypeOK ==
  /\ config \in Configs
  /\ status \in [Requests -> {"new", "refused", "accepted", "finished"}]
  /\ stopped \subseteq Requests
  /\ steps_left \in [Requests -> 0..Steps]
  /\ kv_cached \subseteq Requests
  /\ pressure \in 0..MaxPressure
  /\ waiting_reqs \subseteq Requests
  /\ dp_waiting_reqs \in [1..MaxDp -> SUBSET Requests]
  /\ \A q \in {waiting_queue, decoding_queue, running_reqs,
               async_recomputed_reqs, live_req_ids} :
       q \in [Slots -> SUBSET Requests]
  /\ loop \in [1..MaxPp -> {"wait", "schedule", "launch"}]
  /\ schedule \in [batch : 0..MaxPp, at : {"none", "balance", "strategies"},
                   collected : SUBSET Requests]
  /\ outputs \in [1..MaxPp -> Seq(SUBSET Requests)]
  /\ resources \subseteq Requests
  /\ current_qps \in {"low", "high"}
  /\ elapsed \in BOOLEAN
  /\ adp_balance_waiting_iters \in 0..max_waiting_steps
  /\ held \in [Requests -> Nat]

Places(r) ==
  Cardinality({s \in Slots : r \in waiting_queue[s]})
    + Cardinality({s \in Slots : r \in decoding_queue[s]})
    + Cardinality({s \in Slots : r \in running_reqs[s]})
    + Cardinality({s \in Slots : r \in async_recomputed_reqs[s]})
    + Cardinality({i \in 1..MaxDp : r \in dp_waiting_reqs[i]})
    + (IF r \in waiting_reqs THEN 1 ELSE 0)
    + (IF r \in schedule.collected THEN 1 ELSE 0)

\* The balancing functions move requests between four kinds of queues, under
\* two mutexes, and put them back when they hold them: a request that is to be
\* served is always in exactly one place, and nothing else is anywhere.
EachInOnePlace ==
  /\ TypeOK
  /\ \A r \in Requests :
    CASE status[r] = "accepted" /\ r \notin stopped -> Places(r) = 1
      [] status[r] = "accepted" /\ r \in stopped -> Places(r) <= 1
      [] OTHER -> Places(r) = 0

\* ADP balance holds a request back for at most max_waiting_steps rounds in a
\* row, whatever batch they are for and whatever comes in meanwhile.
HeldBackBounded == \A r \in Requests : held[r] <= max_waiting_steps

\* FillLiveReqIds and FreeInactive: the executor never drops the state of a
\* request whose KV it will need again, because its batch's ids leave it out.
LiveKeepsResources ==
  \A r \in kv_cached : r \notin stopped => r \in resources

\* DistributeRequestsByToken: no request would meet less work on another rank.
NoBetterRank ==
  schedule.at = "strategies" /\ config.enable_balance =>
    LET workload == [i \in Ranks |-> CalculatePrefillWorkload(i)
                                       + TotalTokens(dp_waiting_reqs[i])]
    IN  \A i, j \in Ranks : \A r \in dp_waiting_reqs[i] :
          i # j => workload[i] - TokensNum(r) <= workload[j]

\* WaitUntilHaveReqs, IsIdle and the time-outs of the balance: the loops do not
\* sleep on work, and every accepted request is finished.
EventuallyServed ==
  \A r \in Requests : status[r] = "accepted" ~> status[r] = "finished"
=============================================================================

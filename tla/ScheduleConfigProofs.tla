------------------------ MODULE ScheduleConfigProofs ------------------------
(***************************************************************************)
(* What a serving node's configurations promise, for every deployment.     *)
(*                                                                         *)
(* The start is a chain of stages, each an action that runs once. Every    *)
(* structure has parts that one stage sets and no later one changes, and   *)
(* some that a later stage changes again; the frames say which. StartInv   *)
(* holds, for each stage, what it establishes from its end on, or up to    *)
(* the stage that takes it back, and the types of all structures: the      *)
(* divisions of the later stages rest on the checks of the earlier ones.   *)
(* A property of the serving node then follows from the parts of StartInv  *)
(* it combines, by arithmetic alone.                                       *)
(***************************************************************************)
EXTENDS ScheduleConfig, FiniteSetTheorems, TLAPS

\* Products and quotients of natural numbers.
LEMMA TimesNat ==
  ASSUME NEW m \in Nat, NEW n \in Nat
  PROVE  m * n \in Nat
  BY Z3

\* A product of positive numbers is positive.
LEMMA TimesPositive ==
  ASSUME NEW m \in Nat \ {0}, NEW n \in Nat \ {0}
  PROVE  m * n \in Nat \ {0}
  BY Z3

\* A positive factor does not make a number smaller.
LEMMA TimesGrows ==
  ASSUME NEW m \in Nat, NEW n \in Nat \ {0}
  PROVE  m * n >= m
  BY Z3

\* A common factor keeps the order.
LEMMA TimesMono ==
  ASSUME NEW a \in Int, NEW b \in Int, NEW n \in Nat, a <= b
  PROVE  a * n <= b * n
  BY Z3

\* The factors may change places.
LEMMA TimesCommute ==
  ASSUME NEW m \in Int, NEW n \in Int
  PROVE  m * n = n * m
  BY Z3

\* A quotient is a natural number if the divisor is positive.
LEMMA DivNat ==
  ASSUME NEW n \in Nat, NEW k \in Nat \ {0}
  PROVE  n \div k \in Nat
  BY Z3

\* A quotient times its divisor is not more than what was divided.
LEMMA DivLe ==
  ASSUME NEW n \in Nat, NEW k \in Nat \ {0}
  PROVE  (n \div k) * k <= n
  BY Z3

\* It is exactly that when nothing remains.
LEMMA DivExact ==
  ASSUME NEW n \in Nat, NEW k \in Nat \ {0}, n % k = 0
  PROVE  (n \div k) * k = n
  BY Z3

\* More divided gives no less.
LEMMA DivMono ==
  ASSUME NEW m \in Nat, NEW n \in Nat, NEW k \in Nat \ {0}, m <= n
  PROVE  m \div k <= n \div k
  BY Z3

\* A larger divisor gives no more.
LEMMA DivLarger ==
  ASSUME NEW n \in Nat, NEW k \in Nat \ {0}, NEW l \in Nat \ {0}, k <= l
  PROVE  n \div l <= n \div k
<1> DEFINE a == n \div l
           b == n \div k
<1>1. a \in Nat /\ b \in Nat
  BY DivNat
<1>2. a * l <= n /\ n < (b + 1) * k
  BY Z3
<1>3. a * k <= a * l
  BY <1>1, Z3
<1> HIDE DEF a, b
<1>4. a * k < (b + 1) * k
  BY <1>1, <1>2, <1>3
<1>5. a < b + 1
  <2>1. SUFFICES ASSUME b + 1 <= a PROVE FALSE
    BY <1>1
  <2>2. (b + 1) * k <= a * k
    BY <1>1, <2>1, TimesMono
  <2> QED BY <1>1, <1>4, <2>2
<1> QED BY <1>1, <1>5 DEF a, b

\* Rounding up gives the next multiple.
LEMMA RoundUpFacts ==
  ASSUME NEW n \in Nat, NEW k \in Nat \ {0}
  PROVE  /\ RoundUp(n, k) \in Nat /\ RoundUp(n, k) >= n
         /\ RoundUp(n, k) % k = 0
  BY Z3 DEF RoundUp, DivRoundUp

-----------------------------------------------------------------------------
(***************************************************************************)
(* The structures.                                                         *)
(***************************************************************************)

SpeculativeMethods == {"", "trie", "asr_custom"}

SchedulerConfigs ==
  [scheduler_type : SchedulerTypes, max_token_len : Nat,
   max_step_token_num : Nat \ {0}, max_chunked_kv_tokens : Nat,
   max_batch_size : Nat \ {0}, max_pp_batch_num : Nat,
   launch_block_threshold : Nat, split_fuse_token_num : Nat,
   max_decode_tokens_per_req : Nat \ {0},
   enable_speculative_decoding : BOOLEAN,
   speculative_method : SpeculativeMethods,
   mtp_step_num : Nat, ptp_step_num : Nat, enable_xgrammar : BOOLEAN,
   enable_async : BOOLEAN, enable_executor_build_ahead : BOOLEAN,
   swa_block_num_ratio : Nat]

SchedTypes == sched \in SchedulerConfigs

CacheTypes ==
  cache \in
    [block_token_num : Nat \ {0}, tensor_para_size : Nat,
     min_flexible_cache_num : Nat, enable_prefix_caching : BOOLEAN]

BlockTypes ==
  block \in
    [block_token_num : Nat, block_size : Nat, swa_block_size : Nat,
     reserved_device_memory : Nat, device_blocks : Nat, host_blocks : Nat,
     swa_blocks : Nat]

RuntimeConfigs ==
  [tensor_parallel_size : Nat \ {0}, attn_data_parallel_size : Nat \ {0},
   attn_tensor_parallel_size : Nat, expert_parallel_size : Nat \ {0},
   expert_world_size : Nat \ {0}, moe_tensor_para_size : Nat,
   block_token_num : Nat, block_size : Nat, kv_cache_dtype : KvCacheDtypes,
   enable_blocked_multi_token_forwarding_kv : BOOLEAN,
   moe_all_to_all_mode : AllToAllModes,
   deepep_low_latency_max_tokens : Nat, separate_prefill_decode : BOOLEAN,
   is_decode_only : BOOLEAN, enable_prefix_caching : BOOLEAN,
   enable_flexible_caching : BOOLEAN, max_pp_batch_num : Nat,
   max_batch_size : Nat, max_seq_len : Nat, max_step_token_num : Nat,
   max_chunked_kv_tokens : Nat, mtp_step_num : Nat, enable_async : BOOLEAN,
   enable_executor_build_ahead : BOOLEAN,
   enable_speculative_decoding : BOOLEAN]

RtTypes == rt \in RuntimeConfigs

LinkTypes ==
  /\ conn \in [group_role : GroupRoles, is_pd_v2 : BOOLEAN,
               router_addr : BOOLEAN]
  /\ pd_v2 \in [group_role : GroupRoles, is_pd_v2 : BOOLEAN]
  /\ gcc \in [configured : BOOLEAN, max_step_tokens : Nat,
              block_token_num : Nat]

LayerTypes ==
  /\ pipeline \in [lower : Int, upper : Int, lower_nextn : Int,
                   upper_nextn : Int, device_block_num : Nat,
                   host_block_num : Nat]
  /\ expert \in [expert_world_size : Nat, expert_para_size : Nat,
                 expert_tensor_para_size : Nat, global_expert_para_size : Nat]

OtherTypes == fast_path \in BOOLEAN /\ forwarding.slots \in {1, 2}

Types ==
  /\ dep \in Deployment /\ SchedTypes /\ CacheTypes /\ BlockTypes /\ RtTypes
  /\ LinkTypes /\ LayerTypes /\ OtherTypes

-----------------------------------------------------------------------------
(***************************************************************************)
(* The stages, from the one named on.                                      *)
(***************************************************************************)

FromServing == {"serving"}
FromSync == {"sync"} \cup FromServing
FromMemory == {"memory"} \cup FromSync
FromForwarding == {"forwarding"} \cup FromMemory
FromExperts == {"experts"} \cup FromForwarding
FromLayout == {"layout"} \cup FromExperts
FromFastPath == {"fast_path"} \cup FromLayout
FromModel == {"model"} \cup FromFastPath
FromMembers == {"members"} \cup FromModel
FromGlobalCache == {"global_cache"} \cup FromMembers
FromConnector == {"connector"} \cup FromGlobalCache
FromBackend == {"backend"} \cup FromConnector
FromBlockManager == {"block_manager"} \cup FromBackend
FromScheduler == {"scheduler"} \cup FromBlockManager
AllStages == {"parallel", "rejected"} \cup FromScheduler

-----------------------------------------------------------------------------
(***************************************************************************)
(* What each stage establishes, and the later ones leave.                  *)
(***************************************************************************)

ParallelParsed ==
  /\ ParallelSizesValid
  /\ rt.tensor_parallel_size = TensorParallelSize
  /\ rt.attn_data_parallel_size = dep.attn_data_para_size
  /\ rt.attn_tensor_parallel_size =
       TensorParallelSize \div dep.attn_data_para_size
  /\ rt.expert_parallel_size = dep.expert_para_size
  /\ rt.expert_world_size = dep.expert_world_size

BatchParsed ==
  /\ sched.scheduler_type = (IF dep.scheduler_type = "other" THEN "DEFAULT"
                             ELSE dep.scheduler_type)
  /\ sched.max_pp_batch_num = dep.max_pp_batch_num
  /\ sched.max_decode_tokens_per_req =
       sched.mtp_step_num + 2 * sched.ptp_step_num + 1
  /\ sched.mtp_step_num > 0 =>
       sched.ptp_step_num = 0 /\ dep.num_nextn_predict_layers > 0
  /\ sched.enable_speculative_decoding <=> SpeculativeMethod # ""
  /\ sched.enable_xgrammar = dep.enable_xgrammar
  /\ sched.enable_async = dep.enable_async
  /\ sched.enable_executor_build_ahead = dep.enable_executor_build_ahead

BlockParsed ==
  /\ block.block_token_num = BlockTokenNum
  /\ cache.block_token_num = BlockTokenNum
  /\ rt.block_token_num = BlockTokenNum
  /\ cache.tensor_para_size = rt.tensor_parallel_size

\* Until the model is known, which may lower it.
FlexibleParsed == cache.min_flexible_cache_num = dep.min_flexible_cache_num

BackendParsed ==
  /\ sched.mtp_step_num > 0 => rt.enable_blocked_multi_token_forwarding_kv
  /\ rt.moe_all_to_all_mode # "DISABLED" =>
       rt.attn_data_parallel_size = rt.tensor_parallel_size
  /\ expert.expert_world_size = dep.expert_world_size

ConnectorParsed ==
  /\ conn.group_role = GroupRole /\ pd_v2.group_role = GroupRole
  /\ conn.is_pd_v2 = IsPdV2 /\ pd_v2.is_pd_v2 = IsPdV2

GccInv == gcc.configured => gcc.block_token_num = BlockTokenNum

ModelUpdated ==
  /\ ExpertsDivisible
  /\ rt.moe_tensor_para_size =
       rt.tensor_parallel_size \div rt.expert_parallel_size
  /\ rt.max_batch_size = sched.max_batch_size
  /\ rt.max_pp_batch_num = sched.max_pp_batch_num
  /\ rt.mtp_step_num = sched.mtp_step_num
  /\ rt.enable_async = sched.enable_async
  /\ rt.enable_executor_build_ahead = sched.enable_executor_build_ahead
  /\ rt.separate_prefill_decode <=> conn.group_role # "NONE"
  /\ rt.is_decode_only <=> IsDecodeOnly
  /\ rt.enable_prefix_caching <=>
       cache.enable_prefix_caching \/ sched.split_fuse_token_num > 0
  /\ rt.enable_flexible_caching <=> cache.min_flexible_cache_num > 0
  /\ cache.min_flexible_cache_num =
       (IF dep.use_qk_norm THEN 0 ELSE dep.min_flexible_cache_num)
  /\ rt.max_seq_len = sched.max_token_len
  /\ rt.max_step_token_num > 0
  /\ rt.max_chunked_kv_tokens >= rt.max_seq_len
  /\ \/ sched.split_fuse_token_num = 0
     \/ ~rt.enable_blocked_multi_token_forwarding_kv
     => rt.max_step_token_num >= rt.max_seq_len
  /\ rt.max_step_token_num % rt.tensor_parallel_size = 0

\* Until the blocks are counted, which may lower the scheduler's step.
StepCopied == sched.max_step_token_num = rt.max_step_token_num

PathDecided ==
  /\ fast_path <=> Eligible(dep)
  /\ fast_path => rt.enable_async /\ rt.enable_executor_build_ahead

LayoutSet ==
  /\ block.block_size = dep.block_size /\ rt.block_size = dep.block_size
  /\ block.swa_block_size = dep.swa_block_size
  /\ pipeline.lower = 0 /\ pipeline.upper = dep.num_layer - 1
  /\ IF dep.world_size = 1 /\ sched.mtp_step_num > 0
     THEN /\ pipeline.lower_nextn = dep.num_layer
          /\ pipeline.upper_nextn =
               dep.num_layer + dep.num_nextn_predict_layers - 1
     ELSE pipeline.lower_nextn = -1

ExpertsSet ==
  /\ expert.expert_para_size = rt.expert_parallel_size
  /\ expert.expert_tensor_para_size =
       rt.tensor_parallel_size \div rt.expert_parallel_size
  /\ expert.global_expert_para_size =
       expert.expert_world_size * rt.expert_parallel_size

BuffersSized ==
  /\ forwarding.tokens = SelectEffectiveStepTokenNum
  /\ forwarding.logits = MaxLogitsTokens
  /\ forwarding.hidden_buffer = HiddenBufferSize(forwarding.tokens)
  /\ forwarding.shared_buffer =
       forwarding.tokens * SharedBufferUnitSize(forwarding.tokens)
  /\ sched.mtp_step_num > 0 =>
       forwarding.mtp_hidden_buffer = forwarding.tokens * HiddenWidth
  /\ forwarding.layers = LayerNumOnNode
  /\ forwarding.table_blocks =
       MaxTableBlockNum(dep.device_free + dep.allocated_later)
  /\ forwarding.slots = (IF fast_path THEN 2 ELSE 1)

\* A pipeline may lower the number of blocks, not what was planned from it.
BlocksCounted ==
  /\ MemoryValid
  /\ sched.max_step_token_num = Smaller(rt.max_step_token_num, UsableTokens)
  /\ block.device_blocks <= DeviceBlocksNum
  /\ dep.world_size = 1 => block.device_blocks = DeviceBlocksNum
  /\ block.swa_block_size > 0 =>
       block.swa_blocks = Tenths(sched.swa_block_num_ratio, block.device_blocks)

Established ==
  /\ stage \in FromScheduler => ParallelParsed
  /\ stage \in FromBlockManager => BatchParsed
  /\ stage \in FromBackend => BlockParsed
  /\ stage \in FromBackend \ FromFastPath => FlexibleParsed
  /\ stage \in FromConnector => BackendParsed
  /\ stage \in FromGlobalCache => ConnectorParsed
  /\ GccInv
  /\ stage \in FromFastPath => ModelUpdated
  /\ stage \in FromFastPath \ FromSync => StepCopied
  /\ stage \in FromLayout => PathDecided
  /\ stage \in ({"parallel"} \cup FromScheduler) \ FromExperts =>
       pipeline = AssignedLayers
  /\ stage \in FromExperts => LayoutSet
  /\ stage \in FromForwarding => ExpertsSet
  /\ stage \in FromMemory => BuffersSized
  /\ stage \in FromSync => BlocksCounted

StartInv ==
  /\ dep \in Deployments /\ stage \in AllStages
  /\ Types /\ Established

-----------------------------------------------------------------------------
(***************************************************************************)
(* Which stage changes what.                                               *)
(***************************************************************************)

\* What a step may be: the stage's action, a rejection, or nothing.
LEMMA StageSteps ==
  ASSUME [Next]_vars
  PROVE  \/ UNCHANGED vars
         \/ stage' = "rejected" /\ UNCHANGED <<dep, sched, cache, block, rt,
              conn, pd_v2, gcc, pipeline, expert, fast_path, forwarding>>
         \/ /\ dep' = dep
            /\ \/ ParseParallelSizes \/ ParseBatchScheduler
               \/ ParseBlockManager \/ ParseBackend \/ InitConnectorConfig
               \/ InitGlobalCacheConnectorConfig \/ UpdateMembers
               \/ UpdateModelConfig \/ InitializeAtStartup
               \/ InitializeBlockManagerConfig
               \/ InitializeExpertParallelConfig \/ ForwardingContextInit
               \/ CalculateBlockNumber \/ ResetPipelineBlockNumber
<1>1. ParseParallelSizes => dep' = dep
  BY DEF ParseParallelSizes
<1>2. ParseBatchScheduler => dep' = dep
  BY DEF ParseBatchScheduler
<1>3. ParseBlockManager => dep' = dep
  BY DEF ParseBlockManager
<1>4. ParseBackend => dep' = dep
  BY DEF ParseBackend
<1>5. InitConnectorConfig => dep' = dep
  BY DEF InitConnectorConfig
<1>6. InitGlobalCacheConnectorConfig => dep' = dep
  BY DEF InitGlobalCacheConnectorConfig
<1>7. UpdateMembers => dep' = dep
  BY DEF UpdateMembers
<1>8. UpdateModelConfig => dep' = dep
  BY DEF UpdateModelConfig
<1>9. InitializeAtStartup => dep' = dep
  BY DEF InitializeAtStartup
<1>10. InitializeBlockManagerConfig => dep' = dep
  BY DEF InitializeBlockManagerConfig
<1>11. InitializeExpertParallelConfig => dep' = dep
  BY DEF InitializeExpertParallelConfig
<1>12. ForwardingContextInit => dep' = dep
  BY DEF ForwardingContextInit
<1>13. CalculateBlockNumber => dep' = dep
  BY DEF CalculateBlockNumber
<1>14. ResetPipelineBlockNumber => dep' = dep
  BY DEF ResetPipelineBlockNumber
<1>15. Throw => stage' = "rejected" /\ UNCHANGED <<dep, sched, cache, block, rt,
              conn, pd_v2, gcc, pipeline, expert, fast_path, forwarding>>
  BY DEF Throw
<1> QED
  BY <1>1, <1>2, <1>3, <1>4, <1>5, <1>6, <1>7, <1>8,
     <1>9, <1>10, <1>11, <1>12, <1>13, <1>14, <1>15
  DEF Next

\* The runtime's parallel sizes are set first and never again, its block
\* length by the block manager, and so on.
RtFrame ==
  /\ stage # "parallel" =>
       UNCHANGED <<rt.tensor_parallel_size, rt.attn_data_parallel_size,
                   rt.attn_tensor_parallel_size, rt.expert_parallel_size,
                   rt.expert_world_size>>
  /\ stage # "block_manager" => UNCHANGED rt.block_token_num
  /\ stage # "backend" =>
       UNCHANGED <<rt.enable_blocked_multi_token_forwarding_kv,
                   rt.moe_all_to_all_mode, rt.deepep_low_latency_max_tokens>>
  /\ stage # "model" =>
       UNCHANGED <<rt.moe_tensor_para_size, rt.max_batch_size,
                   rt.max_pp_batch_num, rt.mtp_step_num, rt.enable_async,
                   rt.enable_executor_build_ahead, rt.separate_prefill_decode,
                   rt.is_decode_only, rt.enable_prefix_caching,
                   rt.enable_flexible_caching, rt.max_seq_len,
                   rt.max_step_token_num, rt.max_chunked_kv_tokens>>
  /\ stage # "layout" => UNCHANGED rt.block_size

\* No stage but its own changes a part of the runtime configuration.
LEMMA RtFrames ==
  ASSUME RtTypes, [Next]_vars
  PROVE  RtFrame
<1>1. CASE UNCHANGED rt
  BY <1>1 DEF RtFrame
<1>2. CASE ParseParallelSizes
  BY <1>2 DEF ParseParallelSizes, Go, RtTypes, RuntimeConfigs, RtFrame
<1>3. CASE ParseBlockManager
  BY <1>3 DEF ParseBlockManager, Go, RtTypes, RuntimeConfigs, RtFrame
<1>4. CASE ParseBackend
  BY <1>4 DEF ParseBackend, Go, RtTypes, RuntimeConfigs, RtFrame
<1>5. CASE UpdateMembers
  BY <1>5 DEF UpdateMembers, Go, RtTypes, RuntimeConfigs, RtFrame
<1>6. CASE UpdateModelConfig
  BY <1>6 DEF UpdateModelConfig, Go, RtTypes, RuntimeConfigs, RtFrame
<1>7. CASE InitializeBlockManagerConfig
  BY <1>7 DEF InitializeBlockManagerConfig, Go, RtTypes, RuntimeConfigs, RtFrame
<1> QED
  BY <1>1, <1>2, <1>3, <1>4, <1>5, <1>6, <1>7, StageSteps
  DEF vars, ParseBatchScheduler, InitConnectorConfig,
      InitGlobalCacheConnectorConfig, InitializeAtStartup,
      InitializeExpertParallelConfig, ForwardingContextInit,
      CalculateBlockNumber, ResetPipelineBlockNumber

SchedFrame ==
  /\ stage # "scheduler" =>
       UNCHANGED <<sched.scheduler_type, sched.max_batch_size,
                   sched.max_pp_batch_num, sched.launch_block_threshold,
                   sched.max_decode_tokens_per_req,
                   sched.enable_speculative_decoding, sched.mtp_step_num,
                   sched.ptp_step_num, sched.enable_xgrammar,
                   sched.enable_async, sched.enable_executor_build_ahead>>
  /\ stage \notin {"scheduler", "block_manager"} =>
       UNCHANGED sched.swa_block_num_ratio
  /\ stage \notin {"scheduler", "block_manager", "global_cache"} =>
       UNCHANGED sched.split_fuse_token_num
  /\ stage \notin {"scheduler", "model"} =>
       UNCHANGED <<sched.max_token_len, sched.max_chunked_kv_tokens>>
  /\ stage \notin {"scheduler", "model", "memory"} =>
       UNCHANGED sched.max_step_token_num

\* The scheduler's step and split fuse are changed by the stages listed only.
LEMMA SchedFrames ==
  ASSUME SchedTypes, [Next]_vars
  PROVE  SchedFrame
<1>1. CASE UNCHANGED sched
  BY <1>1 DEF SchedFrame
<1>2. CASE ParseBatchScheduler
  BY <1>2 DEF ParseBatchScheduler, Go, SchedFrame
<1>3. CASE ParseBlockManager
  BY <1>3 DEF ParseBlockManager, Go, SchedTypes, SchedulerConfigs, SchedFrame
<1>4. CASE InitGlobalCacheConnectorConfig
  BY <1>4 DEF InitGlobalCacheConnectorConfig, Go, SchedTypes, SchedulerConfigs, SchedFrame
<1>5. CASE UpdateModelConfig
  BY <1>5 DEF UpdateModelConfig, Go, SchedTypes, SchedulerConfigs, SchedFrame
<1>6. CASE CalculateBlockNumber
  BY <1>6 DEF CalculateBlockNumber, Go, SchedTypes, SchedulerConfigs, SchedFrame
<1> QED
  BY <1>1, <1>2, <1>3, <1>4, <1>5, <1>6, StageSteps
  DEF vars, ParseParallelSizes, ParseBackend, InitConnectorConfig,
      UpdateMembers, InitializeAtStartup, InitializeBlockManagerConfig,
      InitializeExpertParallelConfig, ForwardingContextInit,
      ResetPipelineBlockNumber

\* The cache manager's and the block manager's configurations.
BlockFrame ==
  /\ stage # "block_manager" =>
       UNCHANGED <<cache.block_token_num, cache.tensor_para_size,
                   cache.enable_prefix_caching, block.block_token_num>>
  /\ stage \notin {"block_manager", "model"} =>
       UNCHANGED cache.min_flexible_cache_num
  /\ stage \notin {"block_manager", "members"} =>
       UNCHANGED block.reserved_device_memory
  /\ stage # "layout" => UNCHANGED <<block.block_size, block.swa_block_size>>
  /\ stage \notin {"layout", "memory", "sync"} =>
       UNCHANGED <<block.device_blocks, block.swa_blocks>>

\* A block's size and number belong to the stages from the layout on.
LEMMA BlockFrames ==
  ASSUME CacheTypes, BlockTypes, [Next]_vars
  PROVE  BlockFrame
<1>1. CASE UNCHANGED <<cache, block>>
  BY <1>1 DEF BlockFrame
<1>2. CASE ParseBlockManager
  BY <1>2 DEF ParseBlockManager, Go, BlockTypes, BlockFrame
<1>3. CASE UpdateMembers
  BY <1>3 DEF UpdateMembers, Go, BlockTypes, BlockFrame
<1>4. CASE UpdateModelConfig
  BY <1>4 DEF UpdateModelConfig, Go, CacheTypes, BlockFrame
<1>5. CASE InitializeBlockManagerConfig
  BY <1>5 DEF InitializeBlockManagerConfig, Go, BlockTypes, BlockFrame
<1>6. CASE CalculateBlockNumber
  BY <1>6 DEF CalculateBlockNumber, Go, BlockTypes, BlockFrame
<1>7. CASE ResetPipelineBlockNumber
  BY <1>7 DEF ResetPipelineBlockNumber, Go, BlockTypes, BlockFrame
<1> QED
  BY <1>1, <1>2, <1>3, <1>4, <1>5, <1>6, <1>7, StageSteps
  DEF vars, ParseParallelSizes, ParseBatchScheduler, ParseBackend,
      InitConnectorConfig, InitGlobalCacheConnectorConfig,
      InitializeAtStartup, InitializeExpertParallelConfig,
      ForwardingContextInit

\* Links to other nodes, layers, experts and buffers.
OtherFrame ==
  /\ stage # "connector" => UNCHANGED <<conn, pd_v2>>
  /\ stage # "global_cache" => UNCHANGED gcc
  /\ stage \notin {"layout", "sync"} => UNCHANGED pipeline
  /\ stage # "layout" =>
       UNCHANGED <<pipeline.lower, pipeline.upper, pipeline.lower_nextn,
                   pipeline.upper_nextn>>
  /\ stage \notin {"backend", "experts"} => UNCHANGED expert
  /\ stage # "backend" => UNCHANGED expert.expert_world_size
  /\ stage # "fast_path" => UNCHANGED fast_path
  /\ stage # "forwarding" => UNCHANGED forwarding

\* The links are set once, the layers but for the agreed block numbers.
LEMMA OtherFrames ==
  ASSUME LayerTypes, [Next]_vars
  PROVE  OtherFrame
<1>1. CASE UNCHANGED <<conn, pd_v2, gcc, pipeline, expert, fast_path, forwarding>>
  BY <1>1 DEF OtherFrame
<1>2. CASE ParseBackend \/ InitConnectorConfig \/ InitGlobalCacheConnectorConfig
           \/ InitializeAtStartup \/ ForwardingContextInit
  BY <1>2
  DEF ParseBackend, InitConnectorConfig, InitGlobalCacheConnectorConfig,
      InitializeAtStartup, ForwardingContextInit, Go, OtherFrame
<1>3. CASE InitializeBlockManagerConfig
  BY <1>3 DEF InitializeBlockManagerConfig, Go, OtherFrame
<1>4. CASE InitializeExpertParallelConfig
  BY <1>4 DEF InitializeExpertParallelConfig, Go, LayerTypes, OtherFrame
<1>5. CASE ResetPipelineBlockNumber
  BY <1>5 DEF ResetPipelineBlockNumber, Go, LayerTypes, OtherFrame
<1> QED
  BY <1>1, <1>2, <1>3, <1>4, <1>5, StageSteps
  DEF vars, ParseParallelSizes, ParseBatchScheduler, ParseBlockManager,
      UpdateMembers, UpdateModelConfig, CalculateBlockNumber

-----------------------------------------------------------------------------
(***************************************************************************)
(* Types.                                                                  *)
(***************************************************************************)

\* A structure that a step leaves alone keeps its type.
LEMMA TypesKept ==
  /\ SchedTypes /\ UNCHANGED sched => SchedTypes'
  /\ CacheTypes /\ UNCHANGED cache => CacheTypes'
  /\ BlockTypes /\ UNCHANGED block => BlockTypes'
  /\ RtTypes /\ UNCHANGED rt => RtTypes'
  /\ LinkTypes /\ UNCHANGED <<conn, pd_v2, gcc>> => LinkTypes'
  /\ LayerTypes /\ UNCHANGED <<pipeline, expert>> => LayerTypes'
  /\ OtherTypes /\ UNCHANGED <<fast_path, forwarding>> => OtherTypes'
<1>1. SchedTypes /\ UNCHANGED sched => SchedTypes'
  BY DEF SchedTypes, SchedulerConfigs
<1>2. CacheTypes /\ UNCHANGED cache => CacheTypes'
  BY DEF CacheTypes
<1>3. BlockTypes /\ UNCHANGED block => BlockTypes'
  BY DEF BlockTypes
<1>4. RtTypes /\ UNCHANGED rt => RtTypes'
  BY DEF RtTypes, RuntimeConfigs
<1>5. LinkTypes /\ UNCHANGED <<conn, pd_v2, gcc>> => LinkTypes'
  BY DEF LinkTypes
<1>6. LayerTypes /\ UNCHANGED <<pipeline, expert>> => LayerTypes'
  BY DEF LayerTypes
<1>7. OtherTypes /\ UNCHANGED <<fast_path, forwarding>> => OtherTypes'
  BY DEF OtherTypes
<1> QED BY <1>1, <1>2, <1>3, <1>4, <1>5, <1>6, <1>7

\* What is computed from the deployment alone.
LEMMA DepTypes ==
  ASSUME dep \in Deployment
  PROVE  /\ TensorParallelSize \in Nat
         /\ SpeculativeMethod \in SpeculativeMethods
         /\ MtpStepNum \in Nat /\ PtpStepNum \in Nat
         /\ MaxDecodeTokensPerReq \in Nat \ {0}
         /\ MtpStepNum > 0 => PtpStepNum = 0 /\ dep.num_nextn_predict_layers > 0
         /\ BlockTokenNum \in Nat \ {0}
         /\ GroupRole \in GroupRoles /\ IsPdV2 \in BOOLEAN
<1>1. TensorParallelSize \in Nat
  BY DEF Deployment, TensorParallelSize
<1>2. SpeculativeMethod \in SpeculativeMethods
  BY DEF Deployment, SpeculativeMethod, SpeculativeMethods
<1>3. /\ MtpStepNum \in Nat /\ PtpStepNum \in Nat
      /\ MtpStepNum > 0 => PtpStepNum = 0 /\ dep.num_nextn_predict_layers > 0
  <2>1. /\ dep.mtp_step_num \in Nat /\ dep.ptp_step_num \in Nat
        /\ dep.num_nextn_predict_layers \in Nat
    BY DEF Deployment
  <2>2. /\ MtpStepNum \in Nat
        /\ MtpStepNum > 0 => dep.num_nextn_predict_layers > 0
    BY <2>1 DEF MtpStepNum
  <2>3. PtpStepNum \in Nat /\ (MtpStepNum > 0 => PtpStepNum = 0)
    BY <2>1 DEF PtpStepNum
  <2> QED BY <2>2, <2>3
<1>4. MaxDecodeTokensPerReq \in Nat \ {0}
  BY <1>3 DEF MaxDecodeTokensPerReq
<1>5. BlockTokenNum \in Nat \ {0}
  <2>1. dep.block_token_num \in Nat \ {0}
    BY DEF Deployment
  <2> QED BY <2>1 DEF BlockTokenNum
<1>6. GroupRole \in GroupRoles /\ IsPdV2 \in BOOLEAN
  BY DEF Deployment, GroupRole, GroupRoles, IsPdV2
<1> QED BY <1>1, <1>2, <1>3, <1>4, <1>5, <1>6

\* Before anything is parsed.
LEMMA TypesInit == Init => Types
<1> SUFFICES ASSUME Init PROVE Types
  OBVIOUS
<1>1. dep \in Deployment
  BY ScheduleConfigAssumption DEF Init
<1>2. SchedTypes /\ CacheTypes /\ BlockTypes
  <2>1. SchedTypes
    <3>1. DefaultBatchSchedulerConfig \in SchedulerConfigs
      BY DEF DefaultBatchSchedulerConfig, SchedulerConfigs, SchedulerTypes,
             SpeculativeMethods
    <3> QED BY <3>1 DEF Init, SchedTypes
  <2>2. CacheTypes
    BY DEF Init, CacheTypes, DefaultCacheManagerConfig
  <2>3. BlockTypes
    BY DEF Init, BlockTypes, DefaultBlockManagerConfig
  <2> QED BY <2>1, <2>2, <2>3
<1>3. RtTypes
  BY DEF Init, RtTypes, RuntimeConfigs, KvCacheDtypes, AllToAllModes, DefaultRuntimeConfig
<1>4. LinkTypes
  BY DEF Init, LinkTypes, GroupRoles
<1>5. dep.num_layer \in Nat
  BY <1>1 DEF Deployment
<1>6. LayerTypes
  BY <1>5 DEF Init, LayerTypes, AssignedLayers
<1>7. OtherTypes
  BY DEF Init, OtherTypes
<1> QED BY <1>1, <1>2, <1>3, <1>4, <1>6, <1>7 DEF Types

\* The checks of the sizes keep a zero from the divisions.
LEMMA TypesParallel ==
  ASSUME Types, ParseParallelSizes
  PROVE  Types'
<1>1. dep.attn_data_para_size \in Nat \ {0} /\ TensorParallelSize \in Nat \ {0}
  <2>1. dep.attn_data_para_size \in Nat /\ TensorParallelSize \in Nat
    BY DepTypes DEF Types, Deployment
  <2> QED BY <2>1 DEF ParseParallelSizes, ParallelSizesValid
<1>2. TensorParallelSize \div dep.attn_data_para_size \in Nat
  BY <1>1, DivNat
<1>3. /\ dep.expert_para_size \in Nat \ {0}
      /\ dep.expert_world_size \in Nat \ {0}
  BY DEF Types, Deployment
<1>4. RtTypes'
  BY <1>1, <1>2, <1>3 DEF Types, RtTypes, RuntimeConfigs, ParseParallelSizes
<1> QED
  BY <1>4, TypesKept DEF Types, ParseParallelSizes

\* The defaults that replace unknown values are values that the program knows.
LEMMA TypesBatch ==
  ASSUME Types, ParseBatchScheduler
  PROVE  Types'
<1>1. SchedTypes'
  <2>1. /\ dep.scheduler_type \in SchedulerTypes \cup {"other"}
        /\ dep.max_token_len \in Nat /\ dep.max_step_tokens \in Nat \ {0}
        /\ dep.max_chunked_kv_tokens \in Nat
        /\ dep.max_batch_size \in Nat \ {0}
        /\ dep.max_pp_batch_num \in Nat
        /\ dep.launch_block_threshold \in Nat
        /\ dep.split_fuse_token_num \in Nat
        /\ dep.enable_xgrammar \in BOOLEAN /\ dep.enable_async \in BOOLEAN
        /\ dep.enable_executor_build_ahead \in BOOLEAN
    BY DEF Types, Deployment
  <2>2. dep \in Deployment
    BY DEF Types
  <2> QED
    BY <2>1, <2>2, DepTypes
    DEF SchedTypes, SchedulerConfigs, ParseBatchScheduler, SchedulerTypes
<1> QED
  BY <1>1, TypesKept DEF Types, ParseBatchScheduler

\* The block manager's stage keeps the types.
LEMMA TypesBlock ==
  ASSUME Types, ParseBlockManager
  PROVE  Types'
<1>1. /\ dep.reserved_device_memory \in Nat
      /\ dep.swa_block_num_ratio \in Nat
      /\ dep.min_flexible_cache_num \in Nat
      /\ dep.enable_auto_prefix_cache \in BOOLEAN
      /\ dep.is_visual \in BOOLEAN
  BY DEF Types, Deployment
<1>2. BlockTokenNum \in Nat \ {0}
  BY DepTypes DEF Types
<1>3. SplitFuseTokenNum \in Nat
  BY DEF Types, SchedTypes, SchedulerConfigs, SplitFuseTokenNum
<1>4. SchedTypes'
  BY <1>1, <1>3 DEF Types, SchedTypes, SchedulerConfigs, ParseBlockManager
<1>5. CacheTypes'
  BY <1>1, <1>2
  DEF Types, RtTypes, RuntimeConfigs, CacheTypes, ParseBlockManager, CacheManagerConfig
<1>6. BlockTypes'
  BY <1>1, <1>2 DEF Types, BlockTypes, ParseBlockManager
<1>7. RtTypes'
  BY <1>2 DEF Types, RtTypes, RuntimeConfigs, ParseBlockManager
<1> QED
  BY <1>4, <1>5, <1>6, <1>7, TypesKept DEF Types, ParseBlockManager

\* The backend's stage keeps the types.
LEMMA TypesBackend ==
  ASSUME Types, ParseBackend
  PROVE  Types'
<1>1. /\ dep.expert_world_size \in Nat /\ dep.expert_para_size \in Nat
      /\ dep.deepep_low_latency_max_tokens \in Nat
      /\ dep.kv_cache_dtype \in KvCacheDtypes \cup {"other"}
      /\ dep.enable_blocked_multi_token_forwarding_kv \in BOOLEAN
      /\ dep.use_mla \in BOOLEAN
  BY DEF Types, Deployment
<1>2. AllToAllMode \in AllToAllModes
  BY DEF Types, Deployment, ParseBackend, AllToAllValid, AllToAllMode,
         AllToAllModes
<1>3. /\ sched.max_batch_size \in Nat /\ sched.mtp_step_num \in Nat
      /\ rt.attn_data_parallel_size \in Nat \ {0}
  BY DEF Types, SchedTypes, SchedulerConfigs, RtTypes, RuntimeConfigs
<1>4. sched.max_batch_size \div rt.attn_data_parallel_size \in Nat
  BY <1>3, DivNat
<1>5. LowLatencyMaxTokens \in Nat
  BY <1>1, <1>4 DEF LowLatencyMaxTokens, Smaller
<1>6. RtTypes'
  <2>1. (\/ dep.enable_blocked_multi_token_forwarding_kv
         \/ dep.use_mla
         \/ sched.mtp_step_num > 0) \in BOOLEAN
    OBVIOUS
  <2>2. (IF dep.kv_cache_dtype = "other" THEN "auto" ELSE dep.kv_cache_dtype)
          \in KvCacheDtypes
    BY <1>1 DEF KvCacheDtypes
  <2> DEFINE blocked == \/ dep.enable_blocked_multi_token_forwarding_kv
                        \/ dep.use_mla
                        \/ sched.mtp_step_num > 0
             dtype == IF dep.kv_cache_dtype = "other" THEN "auto"
                      ELSE dep.kv_cache_dtype
  <2>3. rt' = [rt EXCEPT
                 !.enable_blocked_multi_token_forwarding_kv = blocked,
                 !.kv_cache_dtype = dtype,
                 !.moe_all_to_all_mode = AllToAllMode,
                 !.deepep_low_latency_max_tokens = LowLatencyMaxTokens]
    BY DEF ParseBackend
  <2>4. blocked \in BOOLEAN /\ dtype \in KvCacheDtypes
    BY <2>1, <2>2
  <2> HIDE DEF blocked, dtype
  <2> QED BY <1>2, <1>5, <2>3, <2>4 DEF Types, RtTypes, RuntimeConfigs
<1>7. LayerTypes'
  BY <1>1 DEF Types, LayerTypes, ParseBackend
<1> QED
  BY <1>6, <1>7, TypesKept DEF Types, ParseBackend

\* The connectors' stages keep the types.
LEMMA TypesLinks ==
  ASSUME Types, InitConnectorConfig \/ InitGlobalCacheConnectorConfig
  PROVE  Types'
<1>1. CASE InitConnectorConfig
  <2>1. dep.decode_node_benchmark \in BOOLEAN /\ dep.router_addr \in BOOLEAN
    BY DEF Types, Deployment
  <2>2. LinkTypes'
    BY <1>1, <2>1, DepTypes DEF Types, LinkTypes, InitConnectorConfig
  <2> QED
    BY <1>1, <2>2, TypesKept DEF Types, InitConnectorConfig
<1>2. CASE InitGlobalCacheConnectorConfig
  <2>1. LinkTypes'
    BY <1>2 DEF Types, LinkTypes, SchedTypes, SchedulerConfigs, BlockTypes,
                InitGlobalCacheConnectorConfig
  <2>2. SchedTypes'
    BY <1>2 DEF Types, SchedTypes, SchedulerConfigs, InitGlobalCacheConnectorConfig
  <2> QED
    BY <1>2, <2>1, <2>2, TypesKept DEF Types, InitGlobalCacheConnectorConfig
<1> QED BY <1>1, <1>2

\* The cache's type is one that the program knows.
LEMMA TypesMembers ==
  ASSUME Types, UpdateMembers
  PROVE  Types'
<1>1. KvCacheDtype \in KvCacheDtypes
  BY DEF Types, RtTypes, RuntimeConfigs, KvCacheDtype, KvCacheDtypes
<1>2. RtTypes'
  BY <1>1 DEF Types, RtTypes, RuntimeConfigs, UpdateMembers
<1>3. BlockTypes'
  BY DEF Types, BlockTypes, UpdateMembers, Larger
<1> QED
  BY <1>2, <1>3, TypesKept DEF Types, UpdateMembers

\* The lengths that the model decides about.
LEMMA LengthTypes ==
  ASSUME Types
  PROVE  /\ MaxSeqLen \in Nat /\ MaxStepTokenNum \in Nat \ {0}
         /\ MaxChunkedKvTokens \in Nat /\ MaxChunkedKvTokens >= MaxSeqLen
         /\ \/ sched.split_fuse_token_num = 0
            \/ ~rt.enable_blocked_multi_token_forwarding_kv
            => MaxStepTokenNum >= MaxSeqLen
         /\ RoundUp(MaxStepTokenNum, rt.tensor_parallel_size) \in Nat
         /\ RoundUp(MaxStepTokenNum, rt.tensor_parallel_size) >= MaxStepTokenNum
         /\ RoundUp(MaxStepTokenNum, rt.tensor_parallel_size)
              % rt.tensor_parallel_size = 0
<1>1. /\ dep.max_training_seq_len \in Nat \ {0}
      /\ sched.max_token_len \in Nat
      /\ sched.max_step_token_num \in Nat \ {0}
      /\ sched.max_chunked_kv_tokens \in Nat
      /\ rt.tensor_parallel_size \in Nat \ {0}
  BY DEF Types, Deployment, SchedTypes, SchedulerConfigs, RtTypes, RuntimeConfigs
<1>2. MaxSeqLen \in Nat
  BY <1>1 DEF MaxSeqLen, Smaller
<1>3. /\ MaxStepTokenNum \in Nat \ {0}
      /\ \/ sched.split_fuse_token_num = 0
         \/ ~rt.enable_blocked_multi_token_forwarding_kv
         => MaxStepTokenNum >= MaxSeqLen
  BY <1>1, <1>2 DEF MaxStepTokenNum, Larger
<1>4. MaxChunkedKvTokens \in Nat /\ MaxChunkedKvTokens >= MaxSeqLen
  BY <1>1, <1>2, <1>3 DEF MaxChunkedKvTokens, Larger
<1> QED BY <1>1, <1>2, <1>3, <1>4, RoundUpFacts

\* The model's stage keeps the types, and a step of at least one token.
LEMMA TypesModel ==
  ASSUME Types, UpdateModelConfig
  PROVE  Types'
<1> DEFINE step == RoundUp(MaxStepTokenNum, rt.tensor_parallel_size)
<1>1. MaxSeqLen \in Nat /\ MaxChunkedKvTokens \in Nat /\ step \in Nat \ {0}
  BY LengthTypes
<1>2. MinFlexibleCacheNum \in Nat
  BY DEF Types, CacheTypes, MinFlexibleCacheNum
<1>3. rt.tensor_parallel_size \div rt.expert_parallel_size \in Nat
  <2>1. /\ rt.tensor_parallel_size \in Nat
        /\ rt.expert_parallel_size \in Nat \ {0}
    BY DEF Types, RtTypes, RuntimeConfigs
  <2> QED BY <2>1, DivNat
<1>4. IsDecodeOnly \in BOOLEAN
  BY DEF IsDecodeOnly
<1> HIDE DEF step
<1>5. SchedTypes'
  BY <1>1 DEF Types, SchedTypes, SchedulerConfigs, UpdateModelConfig, step
<1>6. CacheTypes'
  BY <1>2 DEF Types, CacheTypes, UpdateModelConfig
<1>7. RtTypes'
  <2>1. /\ sched.max_batch_size \in Nat /\ sched.max_pp_batch_num \in Nat
        /\ sched.mtp_step_num \in Nat /\ sched.enable_async \in BOOLEAN
        /\ sched.enable_executor_build_ahead \in BOOLEAN
        /\ sched.enable_speculative_decoding \in BOOLEAN
    BY DEF Types, SchedTypes, SchedulerConfigs
  <2> DEFINE moe == rt.tensor_parallel_size \div rt.expert_parallel_size
             separate == conn.group_role # "NONE"
             prefix == \/ cache.enable_prefix_caching
                       \/ sched.split_fuse_token_num > 0
             flexible == MinFlexibleCacheNum > 0
             rt1 == [rt EXCEPT !.max_seq_len = MaxSeqLen,
                       !.max_step_token_num = step,
                       !.max_chunked_kv_tokens = MaxChunkedKvTokens,
                       !.moe_tensor_para_size = moe,
                       !.max_batch_size = sched.max_batch_size,
                       !.max_pp_batch_num = sched.max_pp_batch_num,
                       !.mtp_step_num = sched.mtp_step_num]
             rt2 == [rt1 EXCEPT !.enable_async = sched.enable_async,
                       !.enable_executor_build_ahead =
                           sched.enable_executor_build_ahead,
                       !.enable_speculative_decoding =
                           sched.enable_speculative_decoding]
  <2>2. separate \in BOOLEAN /\ prefix \in BOOLEAN /\ flexible \in BOOLEAN
    OBVIOUS
  <2>3. moe \in Nat
    BY <1>3
  <2>4. rt' = [rt2 EXCEPT !.separate_prefill_decode = separate,
                 !.is_decode_only = IsDecodeOnly,
                 !.enable_prefix_caching = prefix,
                 !.enable_flexible_caching = flexible]
    BY DEF UpdateModelConfig, step
  <2> HIDE DEF moe, separate, prefix, flexible
  <2>5. rt1 \in RuntimeConfigs
    BY <1>1, <2>1, <2>3 DEF Types, RtTypes, RuntimeConfigs
  <2> HIDE DEF rt1
  <2>6. rt2 \in RuntimeConfigs
    BY <2>1, <2>5 DEF RuntimeConfigs
  <2> HIDE DEF rt2
  <2>7. [rt2 EXCEPT !.separate_prefill_decode = separate,
                    !.is_decode_only = IsDecodeOnly,
                    !.enable_prefix_caching = prefix,
                    !.enable_flexible_caching = flexible] \in RuntimeConfigs
    BY <1>4, <2>2, <2>6 DEF RuntimeConfigs
  <2> QED BY <2>4, <2>7 DEF RtTypes
<1> QED
  BY <1>5, <1>6, <1>7, TypesKept DEF Types, UpdateModelConfig

\* The start-up gate keeps the types.
LEMMA TypesPath ==
  ASSUME Types, InitializeAtStartup
  PROVE  Types'
<1>1. OtherTypes'
  BY DEF Types, InitializeAtStartup, StartupChecks, OtherTypes
<1> QED
  BY <1>1, TypesKept DEF Types, InitializeAtStartup

\* The layers' stage keeps the types.
LEMMA TypesLayout ==
  ASSUME Types, InitializeBlockManagerConfig
  PROVE  Types'
<1>1. /\ dep.block_size \in Nat /\ dep.swa_block_size \in Nat
      /\ dep.num_layer \in Nat /\ dep.num_nextn_predict_layers \in Nat
  BY DEF Types, Deployment
<1>2. BlockTypes'
  <2> DEFINE device == 512
             host == 5120
  <2>1. device \in Nat /\ host \in Nat
    OBVIOUS
  <2>2. block' = [block EXCEPT !.block_size = dep.block_size,
                    !.swa_block_size = dep.swa_block_size,
                    !.device_blocks = device, !.host_blocks = host]
    BY DEF InitializeBlockManagerConfig
  <2> HIDE DEF device, host
  <2> QED BY <1>1, <2>1, <2>2 DEF Types, BlockTypes
<1>3. RtTypes'
  BY <1>1 DEF Types, RtTypes, RuntimeConfigs, InitializeBlockManagerConfig
<1>4. LayerTypes'
  <2>1. PipelineLayers \in [lower : Int, upper : Int, lower_nextn : Int,
                            upper_nextn : Int, device_block_num : Nat,
                            host_block_num : Nat]
    <3> DEFINE nextn == /\ dep.num_nextn_predict_layers # 0
                        /\ sched.mtp_step_num > 0
               zero == 0
               upper == dep.num_layer - 1
               lower_nextn == IF nextn THEN dep.num_layer ELSE -1
               upper_nextn == IF nextn THEN dep.num_layer
                                 + dep.num_nextn_predict_layers - 1 ELSE -1
    <3>1. \/ PipelineLayers = pipeline
          \/ PipelineLayers =
               [pipeline EXCEPT !.lower = zero, !.upper = upper,
                  !.lower_nextn = lower_nextn, !.upper_nextn = upper_nextn]
      BY DEF PipelineLayers
    <3>2. zero \in Int /\ upper \in Int /\ lower_nextn \in Int
            /\ upper_nextn \in Int
      BY <1>1
    <3> HIDE DEF zero, upper, lower_nextn, upper_nextn
    <3> QED BY <3>1, <3>2 DEF Types, LayerTypes
  <2> QED BY <2>1 DEF Types, LayerTypes, InitializeBlockManagerConfig
<1> QED
  BY <1>2, <1>3, <1>4, TypesKept DEF Types, InitializeBlockManagerConfig

\* The experts' stage keeps the types.
LEMMA TypesExperts ==
  ASSUME Types, InitializeExpertParallelConfig
  PROVE  Types'
<1>1. /\ rt.tensor_parallel_size \in Nat
      /\ rt.expert_parallel_size \in Nat \ {0}
      /\ expert.expert_world_size \in Nat
  BY DEF Types, RtTypes, RuntimeConfigs, LayerTypes
<1>2. rt.tensor_parallel_size \div rt.expert_parallel_size \in Nat
  BY <1>1, DivNat
<1>3. expert.expert_world_size * rt.expert_parallel_size \in Nat
  BY <1>1, TimesNat
<1>4. LayerTypes'
  BY <1>1, <1>2, <1>3 DEF Types, LayerTypes, InitializeExpertParallelConfig
<1> QED
  BY <1>4, TypesKept DEF Types, InitializeExpertParallelConfig

\* The buffers' stage keeps the types.
LEMMA TypesForwarding ==
  ASSUME Types, ForwardingContextInit
  PROVE  Types'
<1>1. OtherTypes'
  BY DEF Types, ForwardingContextInit, OtherTypes
<1> QED
  BY <1>1, TypesKept DEF Types, ForwardingContextInit

\* The number of blocks, once their size is known.
LEMMA BlockNumTypes ==
  ASSUME Types, block.block_size > 0
  PROVE  /\ DeviceBlockMemory \in Nat
         /\ EffectiveBlockSize \in Nat \ {0}
         /\ EffectiveBlockSize >= block.block_size
         /\ DeviceBlockMemory \div EffectiveBlockSize \in Nat
         /\ DeviceBlocksNum \in Nat
         /\ DeviceBlocksNum <= DeviceBlockMemory \div EffectiveBlockSize
<1>1. /\ dep.device_total \in Nat /\ dep.device_free \in Nat
      /\ dep.block_device_memory \in Int /\ dep.max_device_blocks \in Nat
      /\ block.block_size \in Nat /\ block.swa_block_size \in Nat
      /\ block.reserved_device_memory \in Nat
      /\ sched.swa_block_num_ratio \in Nat
  BY DEF Types, Deployment, BlockTypes, SchedTypes, SchedulerConfigs
<1>2. DeviceBlockMemory \in Nat
  <2>1. ASSUME NEW n \in Nat PROVE RoundDown(n, 8) \in Nat
    BY DEF RoundDown
  <2>2. CASE dep.block_device_memory >= 0
    <3>1. dep.block_device_memory * dep.device_total \in Nat
      BY <1>1, <2>2, TimesNat
    <3>2. Smaller(Percent(dep.block_device_memory, dep.device_total),
                  dep.device_free) \in Nat
      BY <1>1, <3>1 DEF Smaller, Percent
    <3> QED BY <2>1, <2>2, <3>2 DEF DeviceBlockMemory
  <2>3. CASE ~(dep.block_device_memory >= 0)
    <3> DEFINE reserved ==
          RoundUp(Percent(block.reserved_device_memory, dep.device_total), 8)
    <3>1. block.reserved_device_memory * dep.device_total \in Nat
      BY <1>1, TimesNat
    <3>2. reserved \in Nat
      BY <1>1, <3>1 DEF RoundUp, DivRoundUp, Percent
    <3>3. Larger(dep.device_free - reserved, 0) \in Nat
      BY <1>1, <3>2 DEF Larger
    <3> QED BY <2>1, <2>3, <3>3 DEF DeviceBlockMemory
  <2> QED BY <2>2, <2>3
<1>3. EffectiveBlockSize \in Nat \ {0} /\ EffectiveBlockSize >= block.block_size
  <2>1. sched.swa_block_num_ratio * block.swa_block_size \in Nat
    BY <1>1, TimesNat
  <2>2. Tenths(sched.swa_block_num_ratio, block.swa_block_size) \in Nat
    BY <2>1 DEF Tenths
  <2> QED BY <1>1, <2>2 DEF EffectiveBlockSize
<1>4. DeviceBlockMemory \div EffectiveBlockSize \in Nat
  BY <1>2, <1>3, DivNat
<1> QED BY <1>1, <1>2, <1>3, <1>4 DEF DeviceBlocksNum

\* The sliding-window pool and the tokens that the blocks hold.
LEMMA PoolTypes ==
  ASSUME Types, NEW n \in Nat
  PROVE  /\ Tenths(sched.swa_block_num_ratio, n) \in Nat
         /\ SwaBlocks(n) \in Nat
<1>1. sched.swa_block_num_ratio \in Nat /\ block.swa_blocks \in Nat
  BY DEF Types, SchedTypes, SchedulerConfigs, BlockTypes
<1>2. sched.swa_block_num_ratio * n \in Nat
  BY <1>1, TimesNat
<1>3. Tenths(sched.swa_block_num_ratio, n) \in Nat
  BY <1>2 DEF Tenths
<1> QED BY <1>1, <1>3 DEF SwaBlocks

\* More blocks than the launch threshold leave tokens to plan.
LEMMA UsableTypes ==
  ASSUME Types, block.block_size > 0, block.block_token_num > 0, MemoryValid
  PROVE  UsableTokens \in Nat \ {0}
<1>1. /\ sched.launch_block_threshold \in Nat
      /\ block.block_token_num \in Nat \ {0}
  BY DEF Types, BlockTypes, SchedTypes, SchedulerConfigs
<1>2. DeviceBlocksNum \in Nat
  BY BlockNumTypes
<1>3. DeviceBlocksNum - sched.launch_block_threshold \in Nat \ {0}
  BY <1>1, <1>2 DEF MemoryValid
<1> QED BY <1>1, <1>3, TimesPositive DEF UsableTokens

\* Counting the blocks keeps the types: a step is never lowered to nothing.
LEMMA TypesMemory ==
  ASSUME Types, block.block_size > 0, block.block_token_num > 0,
         CalculateBlockNumber
  PROVE  Types'
<1>1. /\ sched.launch_block_threshold \in Nat
      /\ block.block_token_num \in Nat \ {0}
      /\ sched.max_step_token_num \in Nat \ {0}
      /\ block.block_size \in Nat \ {0}
      /\ dep.block_host_memory_factor \in Int /\ dep.host_free \in Nat
  <2>1. dep.block_host_memory_factor \in Int /\ dep.host_free \in Nat
    BY DEF Types, Deployment
  <2>2. block.block_token_num \in Nat /\ block.block_size \in Nat
    BY DEF Types, BlockTypes
  <2>3. /\ sched.launch_block_threshold \in Nat
        /\ sched.max_step_token_num \in Nat \ {0}
    BY DEF Types, SchedTypes, SchedulerConfigs
  <2> QED BY <2>1, <2>2, <2>3
<1>2. DeviceBlocksNum \in Nat /\ DeviceBlockMemory \in Nat
  BY BlockNumTypes
<1>3. UsableTokens \in Nat \ {0}
  BY UsableTypes DEF CalculateBlockNumber
<1>4. HostBlockMemory \in Nat
  <2>1. dep.block_host_memory_factor \in Nat
    BY <1>1 DEF CalculateBlockNumber, MemoryValid
  <2>2. DeviceBlockMemory * dep.block_host_memory_factor \in Nat
    BY <1>2, <2>1, TimesNat
  <2>3. Smaller(DeviceBlockMemory * dep.block_host_memory_factor,
                Tenths(8, dep.host_free)) \in Nat
    BY <1>1, <2>2 DEF Smaller, Tenths
  <2> QED BY <2>3 DEF HostBlockMemory, RoundDown
<1>5. HostBlockMemory \div block.block_size \in Nat
  BY <1>1, <1>4, DivNat
<1>6. SwaBlocks(DeviceBlocksNum) \in Nat
  BY <1>2, PoolTypes
<1>7. SchedTypes'
  BY <1>1, <1>3 DEF Types, SchedTypes, SchedulerConfigs, CalculateBlockNumber, Smaller
<1>8. BlockTypes'
  BY <1>2, <1>5, <1>6 DEF Types, BlockTypes, CalculateBlockNumber
<1> QED
  BY <1>7, <1>8, TypesKept DEF Types, CalculateBlockNumber

\* A pipeline's agreement keeps the types.
LEMMA TypesSync ==
  ASSUME Types, ResetPipelineBlockNumber
  PROVE  Types'
<1>1. CASE dep.world_size > 1
  <2>1. /\ block.device_blocks \in Nat /\ block.host_blocks \in Nat
        /\ dep.peer_block_num \in Nat
    BY DEF Types, Deployment, BlockTypes
  <2>2. /\ AgreedBlockNum(block.device_blocks) \in Nat
        /\ AgreedBlockNum(block.host_blocks) \in Nat
    BY <2>1 DEF AgreedBlockNum, Smaller
  <2>3. SwaBlocks(AgreedBlockNum(block.device_blocks)) \in Nat
    BY <2>2, PoolTypes
  <2>4. LayerTypes'
    BY <1>1, <2>2 DEF Types, LayerTypes, ResetPipelineBlockNumber
  <2>5. /\ pipeline'.device_block_num = AgreedBlockNum(block.device_blocks)
        /\ pipeline'.host_block_num = AgreedBlockNum(block.host_blocks)
    BY <1>1 DEF Types, LayerTypes, ResetPipelineBlockNumber
  <2>6. BlockTypes'
    BY <1>1, <2>2, <2>3, <2>5 DEF Types, BlockTypes, ResetPipelineBlockNumber
  <2> QED
    BY <2>4, <2>6, TypesKept DEF Types, ResetPipelineBlockNumber
<1>2. CASE ~(dep.world_size > 1)
  <2>1. UNCHANGED <<pipeline, block>>
    BY <1>2 DEF ResetPipelineBlockNumber
  <2> QED BY <2>1, TypesKept DEF Types, ResetPipelineBlockNumber
<1> QED BY <1>1, <1>2

\* Every stage keeps the types; the blocks are counted when their size is set.
LEMMA TypesNext ==
  ASSUME Types, [Next]_vars,
         stage = "memory" => block.block_size > 0 /\ block.block_token_num > 0
  PROVE  Types'
<1>1. CASE UNCHANGED <<dep, sched, cache, block, rt, conn, pd_v2, gcc,
                       pipeline, expert, fast_path, forwarding>>
  BY <1>1, TypesKept DEF Types
<1>2. CASE CalculateBlockNumber
  BY <1>2, TypesMemory DEF CalculateBlockNumber, Go
<1> QED
  BY <1>1, <1>2, StageSteps, TypesParallel, TypesBatch, TypesBlock,
     TypesBackend, TypesLinks, TypesMembers, TypesModel, TypesPath,
     TypesLayout, TypesExperts, TypesForwarding, TypesSync
  DEF vars

-----------------------------------------------------------------------------
(***************************************************************************)
(* The stages come in their order.                                         *)
(***************************************************************************)

\* Each action has a stage of its own and leads to the next one.
LEMMA ActionStages ==
  /\ ParseParallelSizes => stage = "parallel" /\ stage' = "scheduler"
  /\ ParseBatchScheduler => stage = "scheduler" /\ stage' = "block_manager"
  /\ ParseBlockManager => stage = "block_manager" /\ stage' = "backend"
  /\ ParseBackend => stage = "backend" /\ stage' = "connector"
  /\ InitConnectorConfig => stage = "connector" /\ stage' = "global_cache"
  /\ InitGlobalCacheConnectorConfig =>
       stage = "global_cache" /\ stage' = "members"
  /\ UpdateMembers => stage = "members" /\ stage' = "model"
  /\ UpdateModelConfig => stage = "model" /\ stage' = "fast_path"
  /\ InitializeAtStartup => stage = "fast_path" /\ stage' = "layout"
  /\ InitializeBlockManagerConfig => stage = "layout" /\ stage' = "experts"
  /\ InitializeExpertParallelConfig =>
       stage = "experts" /\ stage' = "forwarding"
  /\ ForwardingContextInit => stage = "forwarding" /\ stage' = "memory"
  /\ CalculateBlockNumber => stage = "memory" /\ stage' = "sync"
  /\ ResetPipelineBlockNumber => stage = "sync" /\ stage' = "serving"
<1>1. ParseParallelSizes => stage = "parallel" /\ stage' = "scheduler"
  BY DEF ParseParallelSizes, Go
<1>2. ParseBatchScheduler => stage = "scheduler" /\ stage' = "block_manager"
  BY DEF ParseBatchScheduler, Go
<1>3. ParseBlockManager => stage = "block_manager" /\ stage' = "backend"
  BY DEF ParseBlockManager, Go
<1>4. ParseBackend => stage = "backend" /\ stage' = "connector"
  BY DEF ParseBackend, Go
<1>5. InitConnectorConfig => stage = "connector" /\ stage' = "global_cache"
  BY DEF InitConnectorConfig, Go
<1>6. InitGlobalCacheConnectorConfig =>
        stage = "global_cache" /\ stage' = "members"
  BY DEF InitGlobalCacheConnectorConfig, Go
<1>7. UpdateMembers => stage = "members" /\ stage' = "model"
  BY DEF UpdateMembers, Go
<1>8. UpdateModelConfig => stage = "model" /\ stage' = "fast_path"
  BY DEF UpdateModelConfig, Go
<1>9. InitializeAtStartup => stage = "fast_path" /\ stage' = "layout"
  BY DEF InitializeAtStartup, Go
<1>10. InitializeBlockManagerConfig => stage = "layout" /\ stage' = "experts"
  BY DEF InitializeBlockManagerConfig, Go
<1>11. InitializeExpertParallelConfig =>
         stage = "experts" /\ stage' = "forwarding"
  BY DEF InitializeExpertParallelConfig, Go
<1>12. ForwardingContextInit => stage = "forwarding" /\ stage' = "memory"
  BY DEF ForwardingContextInit, Go
<1>13. CalculateBlockNumber => stage = "memory" /\ stage' = "sync"
  BY DEF CalculateBlockNumber, Go
<1>14. ResetPipelineBlockNumber => stage = "sync" /\ stage' = "serving"
  BY DEF ResetPipelineBlockNumber, Go
<1> QED
  BY <1>1, <1>2, <1>3, <1>4, <1>5, <1>6, <1>7, <1>8, <1>9, <1>10, <1>11,
     <1>12, <1>13, <1>14

\* A step leads from a stage to the next one, stays, or rejects.
LEMMA StageNext ==
  ASSUME [Next]_vars
  PROVE  \/ UNCHANGED vars
         \/ stage' = "rejected"
         \/ ParseParallelSizes /\ stage = "parallel" /\ stage' = "scheduler"
         \/ ParseBatchScheduler /\ stage = "scheduler" /\ stage' = "block_manager"
         \/ ParseBlockManager /\ stage = "block_manager" /\ stage' = "backend"
         \/ ParseBackend /\ stage = "backend" /\ stage' = "connector"
         \/ InitConnectorConfig /\ stage = "connector" /\ stage' = "global_cache"
         \/ /\ InitGlobalCacheConnectorConfig
            /\ stage = "global_cache" /\ stage' = "members"
         \/ UpdateMembers /\ stage = "members" /\ stage' = "model"
         \/ UpdateModelConfig /\ stage = "model" /\ stage' = "fast_path"
         \/ InitializeAtStartup /\ stage = "fast_path" /\ stage' = "layout"
         \/ /\ InitializeBlockManagerConfig
            /\ stage = "layout" /\ stage' = "experts"
         \/ /\ InitializeExpertParallelConfig
            /\ stage = "experts" /\ stage' = "forwarding"
         \/ ForwardingContextInit /\ stage = "forwarding" /\ stage' = "memory"
         \/ CalculateBlockNumber /\ stage = "memory" /\ stage' = "sync"
         \/ ResetPipelineBlockNumber /\ stage = "sync" /\ stage' = "serving"
  BY StageSteps, ActionStages

\* What is from a stage on was so before, or that stage's predecessor acts.
LEMMA StageOrder ==
  ASSUME [Next]_vars, stage \in AllStages
  PROVE  /\ dep' = dep /\ stage' \in AllStages
         /\ stage' \in FromScheduler =>
              stage \in FromScheduler \/ ParseParallelSizes
         /\ stage' \in FromBlockManager =>
              stage \in FromBlockManager \/ ParseBatchScheduler
         /\ stage' \in FromBackend =>
              stage \in FromBackend \/ ParseBlockManager
         /\ stage' \in FromConnector => stage \in FromConnector \/ ParseBackend
         /\ stage' \in FromGlobalCache =>
              stage \in FromGlobalCache \/ InitConnectorConfig
         /\ stage' \in FromFastPath =>
              stage \in FromFastPath \/ UpdateModelConfig
         /\ stage' \in FromLayout => stage \in FromLayout \/ InitializeAtStartup
         /\ stage' \in FromExperts =>
              stage \in FromExperts \/ InitializeBlockManagerConfig
         /\ stage' \in FromForwarding =>
              stage \in FromForwarding \/ InitializeExpertParallelConfig
         /\ stage' \in FromMemory => stage \in FromMemory \/ ForwardingContextInit
         /\ stage' \in FromSync => stage \in FromSync \/ CalculateBlockNumber
<1>1. dep' = dep
  BY StageSteps DEF vars
<1> USE StageNext DEF FromServing, vars
<1>2. stage' \in FromSync => stage \in FromSync \/ CalculateBlockNumber
  BY DEF FromSync
<1> USE DEF FromSync
<1>3. stage' \in FromMemory => stage \in FromMemory \/ ForwardingContextInit
  BY DEF FromMemory
<1> USE DEF FromMemory
<1>4. stage' \in FromForwarding =>
        stage \in FromForwarding \/ InitializeExpertParallelConfig
  BY DEF FromForwarding
<1> USE DEF FromForwarding
<1>5. stage' \in FromExperts =>
        stage \in FromExperts \/ InitializeBlockManagerConfig
  BY DEF FromExperts
<1> USE DEF FromExperts
<1>6. stage' \in FromLayout => stage \in FromLayout \/ InitializeAtStartup
  BY DEF FromLayout
<1> USE DEF FromLayout
<1>7. stage' \in FromFastPath => stage \in FromFastPath \/ UpdateModelConfig
  BY DEF FromFastPath
<1> USE DEF FromFastPath, FromModel, FromMembers
<1>8. stage' \in FromGlobalCache =>
        stage \in FromGlobalCache \/ InitConnectorConfig
  BY DEF FromGlobalCache
<1> USE DEF FromGlobalCache
<1>9. stage' \in FromConnector => stage \in FromConnector \/ ParseBackend
  BY DEF FromConnector
<1> USE DEF FromConnector
<1>10. stage' \in FromBackend => stage \in FromBackend \/ ParseBlockManager
  BY DEF FromBackend
<1> USE DEF FromBackend
<1>11. stage' \in FromBlockManager =>
         stage \in FromBlockManager \/ ParseBatchScheduler
  BY DEF FromBlockManager
<1> USE DEF FromBlockManager
<1>12. stage' \in FromScheduler => stage \in FromScheduler \/ ParseParallelSizes
  BY DEF FromScheduler
<1>13. stage' \in AllStages
  BY DEF FromScheduler, AllStages
<1> QED
  BY <1>1, <1>2, <1>3, <1>4, <1>5, <1>6, <1>7, <1>8, <1>9, <1>10, <1>11,
     <1>12, <1>13

\* Some parts hold only until a later stage changes them.
LEMMA StageWindows ==
  ASSUME [Next]_vars, stage \in AllStages
  PROVE  /\ stage' \in FromBackend \ FromFastPath =>
              \/ ParseBlockManager
              \/ /\ stage \in FromBackend \ FromFastPath
                 /\ UNCHANGED vars \/ stage # "model"
         /\ stage' \in FromFastPath \ FromSync =>
              \/ UpdateModelConfig
              \/ /\ stage \in FromFastPath \ FromSync
                 /\ UNCHANGED vars \/ stage # "memory"
         /\ stage' \in ({"parallel"} \cup FromScheduler) \ FromExperts =>
              /\ stage \in ({"parallel"} \cup FromScheduler) \ FromExperts
              /\ UNCHANGED vars \/ stage # "layout"
<1> USE StageNext DEF FromServing, FromSync, FromMemory, FromForwarding,
      FromExperts, FromLayout, FromFastPath
<1>1. UNCHANGED vars => stage' = stage
  BY DEF vars
<1>2. stage' \in FromFastPath \ FromSync =>
        \/ UpdateModelConfig
        \/ /\ stage \in FromFastPath \ FromSync
           /\ UNCHANGED vars \/ stage # "memory"
  BY <1>1
<1> USE DEF FromModel, FromMembers, FromGlobalCache, FromConnector, FromBackend
<1>3. stage' \in FromBackend \ FromFastPath =>
        \/ ParseBlockManager
        \/ /\ stage \in FromBackend \ FromFastPath
           /\ UNCHANGED vars \/ stage # "model"
  BY <1>1
<1>4. stage' \in ({"parallel"} \cup FromScheduler) \ FromExperts =>
        /\ stage \in ({"parallel"} \cup FromScheduler) \ FromExperts
        /\ UNCHANGED vars \/ stage # "layout"
  BY <1>1 DEF FromBlockManager, FromScheduler
<1> QED BY <1>2, <1>3, <1>4

\* What is from a stage on is from the one before on.
LEMMA StageChain ==
  /\ stage \in FromScheduler => stage \notin {"parallel", "rejected"}
  /\ stage \in FromBlockManager =>
       stage \in FromScheduler /\ stage # "scheduler"
  /\ stage \in FromBackend =>
       stage \in FromBlockManager /\ stage # "block_manager"
  /\ stage \in FromConnector => stage \in FromBackend /\ stage # "backend"
  /\ stage \in FromGlobalCache => stage \in FromConnector /\ stage # "connector"
  /\ stage \in FromMembers => stage \in FromGlobalCache /\ stage # "global_cache"
  /\ stage \in FromModel => stage \in FromMembers /\ stage # "members"
  /\ stage \in FromFastPath => stage \in FromModel /\ stage # "model"
  /\ stage \in FromLayout => stage \in FromFastPath /\ stage # "fast_path"
  /\ stage \in FromExperts => stage \in FromLayout /\ stage # "layout"
  /\ stage \in FromForwarding => stage \in FromExperts /\ stage # "experts"
  /\ stage \in FromMemory => stage \in FromForwarding /\ stage # "forwarding"
  /\ stage \in FromSync => stage \in FromMemory /\ stage # "memory"
  /\ stage \in FromServing => stage \in FromSync /\ stage # "sync"
  BY DEF FromServing, FromSync, FromMemory, FromForwarding, FromExperts,
         FromLayout, FromFastPath, FromModel, FromMembers, FromGlobalCache,
         FromConnector, FromBackend, FromBlockManager, FromScheduler

\* Where each action finds itself.
LEMMA StageAt ==
  /\ stage = "serving" => stage \in FromServing
  /\ stage = "sync" => stage \in FromSync
  /\ stage = "memory" => stage \in FromMemory
  /\ stage = "forwarding" => stage \in FromForwarding
  /\ stage = "experts" => stage \in FromExperts
  /\ stage = "layout" => stage \in FromLayout \ FromExperts
  /\ stage = "fast_path" => stage \in FromFastPath
  /\ stage = "model" => stage \in FromModel \ FromFastPath
  /\ stage = "members" => stage \in FromMembers
  /\ stage = "global_cache" => stage \in FromGlobalCache
  /\ stage = "connector" => stage \in FromConnector
  /\ stage = "backend" => stage \in FromBackend
  /\ stage = "block_manager" => stage \in FromBlockManager
  /\ stage = "scheduler" => stage \in FromScheduler
  BY DEF FromServing, FromSync, FromMemory, FromForwarding, FromExperts,
         FromLayout, FromFastPath, FromModel, FromMembers, FromGlobalCache,
         FromConnector, FromBackend, FromBlockManager, FromScheduler

-----------------------------------------------------------------------------
(***************************************************************************)
(* Each stage establishes its part, and the later ones keep it.            *)
(***************************************************************************)

\* What all of the lemmas below start from.
StartStep ==
  /\ StartInv /\ dep' = dep
  /\ RtFrame /\ SchedFrame /\ BlockFrame /\ OtherFrame

\* Every step of the start is within the frames.
LEMMA StartSteps ==
  ASSUME StartInv, [Next]_vars
  PROVE  StartStep
  BY StageOrder, RtFrames, SchedFrames, BlockFrames, OtherFrames
  DEF StartStep, StartInv, Types

\* The sizes that were checked stay.
LEMMA ParallelNext ==
  ASSUME StartInv, [Next]_vars, stage' \in FromScheduler
  PROVE  ParallelParsed'
<1> USE StartSteps DEF StartStep
<1>1. CASE stage \in FromScheduler
  <2>1. ParallelParsed /\ stage # "parallel"
    BY <1>1, StageChain DEF StartInv, Established
  <2> QED
    BY <2>1 DEF RtFrame, ParallelParsed, ParallelSizesValid, TensorParallelSize
<1>2. CASE ParseParallelSizes
  BY <1>2 DEF StartInv, Types, RtTypes, RuntimeConfigs, ParseParallelSizes,
              ParallelParsed, ParallelSizesValid, TensorParallelSize
<1> QED BY <1>1, <1>2, StageOrder DEF StartInv

\* The batch scheduler's settings stay.
LEMMA BatchNext ==
  ASSUME StartInv, [Next]_vars, stage' \in FromBlockManager
  PROVE  BatchParsed'
<1> USE StartSteps DEF StartStep
<1>1. SpeculativeMethod' = SpeculativeMethod
  BY DEF SpeculativeMethod
<1>2. CASE stage \in FromBlockManager
  <2>1. BatchParsed /\ stage # "scheduler"
    BY <1>2, StageChain DEF StartInv, Established
  <2> QED BY <1>1, <2>1 DEF SchedFrame, BatchParsed
<1>3. CASE ParseBatchScheduler
  <2>1. /\ sched'.scheduler_type =
             (IF dep.scheduler_type = "other" THEN "DEFAULT"
              ELSE dep.scheduler_type)
        /\ sched'.max_pp_batch_num = dep.max_pp_batch_num
        /\ sched'.max_decode_tokens_per_req = MaxDecodeTokensPerReq
        /\ sched'.mtp_step_num = MtpStepNum /\ sched'.ptp_step_num = PtpStepNum
        /\ sched'.enable_speculative_decoding = (SpeculativeMethod # "")
        /\ sched'.enable_xgrammar = dep.enable_xgrammar
        /\ sched'.enable_async = dep.enable_async
        /\ sched'.enable_executor_build_ahead = dep.enable_executor_build_ahead
    BY <1>3 DEF ParseBatchScheduler
  <2>2. MtpStepNum > 0 => PtpStepNum = 0 /\ dep.num_nextn_predict_layers > 0
    BY DepTypes DEF StartInv, Types
  <2> QED BY <1>1, <2>1, <2>2 DEF BatchParsed, MaxDecodeTokensPerReq
<1> QED BY <1>2, <1>3, StageOrder DEF StartInv

\* The three copies of the block length stay equal.
LEMMA BlockNext ==
  ASSUME StartInv, [Next]_vars, stage' \in FromBackend
  PROVE  BlockParsed'
<1> USE StartSteps DEF StartStep
<1>1. BlockTokenNum' = BlockTokenNum
  BY DEF BlockTokenNum
<1>2. CASE stage \in FromBackend
  <2>1. BlockParsed /\ stage \notin {"block_manager", "parallel"}
    BY <1>2, StageChain DEF StartInv, Established
  <2> QED BY <1>1, <2>1 DEF BlockFrame, RtFrame, BlockParsed
<1>3. CASE ParseBlockManager
  BY <1>1, <1>3
  DEF StartInv, Types, BlockTypes, RtTypes, RuntimeConfigs, ParseBlockManager,
      CacheManagerConfig, BlockParsed
<1> QED BY <1>2, <1>3, StageOrder DEF StartInv

\* The cache manager's copy is the setting until the model may clear it.
LEMMA FlexibleNext ==
  ASSUME StartInv, [Next]_vars, stage' \in FromBackend \ FromFastPath
  PROVE  FlexibleParsed'
<1> USE StartSteps DEF StartStep
<1>1. CASE /\ stage \in FromBackend \ FromFastPath
           /\ UNCHANGED vars \/ stage # "model"
  <2>1. FlexibleParsed /\ stage # "block_manager"
    BY <1>1, StageChain DEF StartInv, Established
  <2> QED BY <1>1, <2>1 DEF BlockFrame, FlexibleParsed, vars
<1>2. CASE ParseBlockManager
  BY <1>2 DEF ParseBlockManager, CacheManagerConfig, FlexibleParsed
<1> QED BY <1>1, <1>2, StageWindows DEF StartInv

\* Multi-token prediction has its kernels; DeepEP has groups of one device.
LEMMA BackendNext ==
  ASSUME StartInv, [Next]_vars, stage' \in FromConnector
  PROVE  BackendParsed'
<1> USE StartSteps DEF StartStep
<1>1. CASE stage \in FromConnector
  <2>1. /\ BackendParsed
        /\ stage \notin {"backend", "scheduler", "parallel"}
    BY <1>1, StageChain DEF StartInv, Established
  <2> QED
    BY <2>1 DEF RtFrame, SchedFrame, OtherFrame, BackendParsed
<1>2. CASE ParseBackend
  <2>1. stage = "backend"
    BY <1>2, ActionStages
  <2>2. /\ rt'.enable_blocked_multi_token_forwarding_kv =
             (\/ dep.enable_blocked_multi_token_forwarding_kv
              \/ dep.use_mla
              \/ sched.mtp_step_num > 0)
        /\ rt'.moe_all_to_all_mode = AllToAllMode
        /\ expert'.expert_world_size = dep.expert_world_size
    BY <1>2 DEF StartInv, Types, RtTypes, RuntimeConfigs, LayerTypes,
                ParseBackend
  <2>3. AllToAllMode # "DISABLED" =>
          rt.attn_data_parallel_size = rt.tensor_parallel_size
    BY <1>2 DEF ParseBackend, AllToAllValid
  <2>4. /\ rt'.attn_data_parallel_size = rt.attn_data_parallel_size
        /\ rt'.tensor_parallel_size = rt.tensor_parallel_size
        /\ sched'.mtp_step_num = sched.mtp_step_num
    BY <2>1 DEF RtFrame, SchedFrame
  <2> QED BY <2>2, <2>3, <2>4 DEF BackendParsed
<1> QED BY <1>1, <1>2, StageOrder DEF StartInv

\* The connector's configuration and its pd_v2 twin stay the same.
LEMMA ConnectorNext ==
  ASSUME StartInv, [Next]_vars, stage' \in FromGlobalCache
  PROVE  ConnectorParsed'
<1> USE StartSteps DEF StartStep
<1>1. GroupRole' = GroupRole /\ IsPdV2' = IsPdV2
  BY DEF GroupRole, IsPdV2
<1>2. CASE stage \in FromGlobalCache
  <2>1. ConnectorParsed /\ stage # "connector"
    BY <1>2, StageChain DEF StartInv, Established
  <2> QED BY <1>1, <2>1 DEF OtherFrame, ConnectorParsed
<1>3. CASE InitConnectorConfig
  BY <1>1, <1>3 DEF InitConnectorConfig, ConnectorParsed
<1> QED BY <1>2, <1>3, StageOrder DEF StartInv

\* The global cache's copy of the block length was taken when it was final.
LEMMA GccNext ==
  ASSUME StartInv, [Next]_vars
  PROVE  GccInv'
<1> USE StartSteps DEF StartStep
<1>1. BlockTokenNum' = BlockTokenNum /\ GccInv
  BY DEF BlockTokenNum, StartInv, Established
<1>2. CASE stage # "global_cache"
  BY <1>1, <1>2 DEF OtherFrame, GccInv
<1>3. CASE UNCHANGED gcc
  BY <1>1, <1>3 DEF GccInv
<1>4. CASE InitGlobalCacheConnectorConfig
  <2>1. block.block_token_num = BlockTokenNum
    BY <1>4, ActionStages, StageAt, StageChain
    DEF StartInv, Established, BlockParsed
  <2> QED BY <1>1, <1>4, <2>1 DEF InitGlobalCacheConnectorConfig, GccInv
<1> QED BY <1>2, <1>3, <1>4, StageSteps, ActionStages DEF vars

\* What the model's configuration writes, field by field.
LEMMA ModelFields ==
  ASSUME Types, UpdateModelConfig
  PROVE  LET step == RoundUp(MaxStepTokenNum, rt.tensor_parallel_size) IN
         /\ sched'.max_token_len = MaxSeqLen
         /\ sched'.max_step_token_num = step
         /\ cache'.min_flexible_cache_num = MinFlexibleCacheNum
         /\ rt'.max_seq_len = MaxSeqLen
         /\ rt'.max_step_token_num = step
         /\ rt'.max_chunked_kv_tokens = MaxChunkedKvTokens
         /\ rt'.moe_tensor_para_size =
              rt.tensor_parallel_size \div rt.expert_parallel_size
         /\ rt'.max_batch_size = sched.max_batch_size
         /\ rt'.max_pp_batch_num = sched.max_pp_batch_num
         /\ rt'.mtp_step_num = sched.mtp_step_num
         /\ rt'.enable_async = sched.enable_async
         /\ rt'.enable_executor_build_ahead = sched.enable_executor_build_ahead
         /\ rt'.separate_prefill_decode = (conn.group_role # "NONE")
         /\ rt'.is_decode_only = IsDecodeOnly
         /\ rt'.enable_prefix_caching =
              (cache.enable_prefix_caching \/ sched.split_fuse_token_num > 0)
         /\ rt'.enable_flexible_caching = (MinFlexibleCacheNum > 0)
<1> DEFINE step == RoundUp(MaxStepTokenNum, rt.tensor_parallel_size)
           moe == rt.tensor_parallel_size \div rt.expert_parallel_size
           separate == conn.group_role # "NONE"
           prefix == \/ cache.enable_prefix_caching
                     \/ sched.split_fuse_token_num > 0
           flexible == MinFlexibleCacheNum > 0
           rt1 == [rt EXCEPT !.max_seq_len = MaxSeqLen,
                     !.max_step_token_num = step,
                     !.max_chunked_kv_tokens = MaxChunkedKvTokens,
                     !.moe_tensor_para_size = moe,
                     !.max_batch_size = sched.max_batch_size,
                     !.max_pp_batch_num = sched.max_pp_batch_num,
                     !.mtp_step_num = sched.mtp_step_num]
           rt2 == [rt1 EXCEPT !.enable_async = sched.enable_async,
                     !.enable_executor_build_ahead =
                         sched.enable_executor_build_ahead,
                     !.enable_speculative_decoding =
                         sched.enable_speculative_decoding]
           rt3 == [rt2 EXCEPT !.separate_prefill_decode = separate,
                     !.is_decode_only = IsDecodeOnly,
                     !.enable_prefix_caching = prefix,
                     !.enable_flexible_caching = flexible]
<1>1. /\ sched'.max_token_len = MaxSeqLen /\ sched'.max_step_token_num = step
      /\ cache'.min_flexible_cache_num = MinFlexibleCacheNum
  <2>1. sched' = [sched EXCEPT !.max_token_len = MaxSeqLen,
                    !.max_step_token_num = step,
                    !.max_chunked_kv_tokens = MaxChunkedKvTokens]
    BY DEF UpdateModelConfig
  <2>2. cache' = [cache EXCEPT !.min_flexible_cache_num = MinFlexibleCacheNum]
    BY DEF UpdateModelConfig
  <2> HIDE DEF step
  <2>3. sched'.max_token_len = MaxSeqLen /\ sched'.max_step_token_num = step
    BY <2>1 DEF Types, SchedTypes, SchedulerConfigs
  <2> QED BY <2>2, <2>3 DEF Types, CacheTypes
<1>2. rt' = rt3
  BY DEF UpdateModelConfig
<1>3. rt \in RuntimeConfigs
  BY DEF Types, RtTypes
<1> HIDE DEF step, moe, separate, prefix, flexible
<1>4. /\ DOMAIN rt1 = DOMAIN rt
      /\ rt1.max_seq_len = MaxSeqLen /\ rt1.max_step_token_num = step
      /\ rt1.max_chunked_kv_tokens = MaxChunkedKvTokens
      /\ rt1.moe_tensor_para_size = moe
      /\ rt1.max_batch_size = sched.max_batch_size
      /\ rt1.max_pp_batch_num = sched.max_pp_batch_num
      /\ rt1.mtp_step_num = sched.mtp_step_num
  BY <1>3 DEF RuntimeConfigs
<1>5. DOMAIN rt = {"tensor_parallel_size", "attn_data_parallel_size",
         "attn_tensor_parallel_size", "expert_parallel_size",
         "expert_world_size", "moe_tensor_para_size", "block_token_num",
         "block_size", "kv_cache_dtype",
         "enable_blocked_multi_token_forwarding_kv", "moe_all_to_all_mode",
         "deepep_low_latency_max_tokens", "separate_prefill_decode",
         "is_decode_only", "enable_prefix_caching", "enable_flexible_caching",
         "max_pp_batch_num", "max_batch_size", "max_seq_len",
         "max_step_token_num", "max_chunked_kv_tokens", "mtp_step_num",
         "enable_async", "enable_executor_build_ahead",
         "enable_speculative_decoding"}
  BY <1>3 DEF RuntimeConfigs
<1> HIDE DEF rt1
<1>6. /\ DOMAIN rt2 = DOMAIN rt
      /\ rt2.max_seq_len = MaxSeqLen /\ rt2.max_step_token_num = step
      /\ rt2.max_chunked_kv_tokens = MaxChunkedKvTokens
      /\ rt2.moe_tensor_para_size = moe
      /\ rt2.max_batch_size = sched.max_batch_size
      /\ rt2.max_pp_batch_num = sched.max_pp_batch_num
      /\ rt2.mtp_step_num = sched.mtp_step_num
      /\ rt2.enable_async = sched.enable_async
      /\ rt2.enable_executor_build_ahead = sched.enable_executor_build_ahead
  BY <1>4, <1>5
<1> HIDE DEF rt2
<1>7. /\ rt3.max_seq_len = MaxSeqLen /\ rt3.max_step_token_num = step
      /\ rt3.max_chunked_kv_tokens = MaxChunkedKvTokens
      /\ rt3.moe_tensor_para_size = moe
      /\ rt3.max_batch_size = sched.max_batch_size
      /\ rt3.max_pp_batch_num = sched.max_pp_batch_num
      /\ rt3.mtp_step_num = sched.mtp_step_num
      /\ rt3.enable_async = sched.enable_async
      /\ rt3.enable_executor_build_ahead = sched.enable_executor_build_ahead
      /\ rt3.separate_prefill_decode = separate
      /\ rt3.is_decode_only = IsDecodeOnly
      /\ rt3.enable_prefix_caching = prefix
      /\ rt3.enable_flexible_caching = flexible
  BY <1>5, <1>6
<1> HIDE DEF rt3
<1> QED BY <1>1, <1>2, <1>7 DEF step, moe, separate, prefix, flexible

\* The executor's copies agree with the scheduler's from the model on.
LEMMA ModelNext ==
  ASSUME StartInv, [Next]_vars, stage' \in FromFastPath
  PROVE  ModelUpdated'
<1> USE StartSteps DEF StartStep
<1>1. CASE stage \in FromFastPath
  <2>1. /\ ModelUpdated
        /\ stage \notin {"model", "global_cache", "connector", "backend",
                         "block_manager", "scheduler", "parallel"}
    BY <1>1, StageChain DEF StartInv, Established
  <2>2. UNCHANGED <<conn, pd_v2>>
    BY <2>1 DEF OtherFrame
  <2>3. IsDecodeOnly' = IsDecodeOnly /\ ExpertsDivisible'
    BY <2>1, <2>2 DEF IsDecodeOnly, ExpertsDivisible, RtFrame, ModelUpdated
  <2> QED
    BY <2>1, <2>2, <2>3 DEF RtFrame, SchedFrame, BlockFrame, ModelUpdated
<1>2. CASE UpdateModelConfig
  <2>1. stage = "model" /\ FlexibleParsed /\ ExpertsDivisible
    BY <1>2, ActionStages, StageAt, StageChain
    DEF StartInv, Established, UpdateModelConfig
  <2>2. UNCHANGED <<conn, pd_v2>>
    BY <2>1 DEF OtherFrame
  <2>3. IsDecodeOnly' = IsDecodeOnly /\ ExpertsDivisible'
    BY <2>1, <2>2 DEF IsDecodeOnly, ExpertsDivisible, RtFrame
  <2>4. /\ MaxChunkedKvTokens >= MaxSeqLen
        /\ MaxSeqLen \in Nat /\ MaxStepTokenNum \in Nat \ {0}
        /\ \/ sched.split_fuse_token_num = 0
           \/ ~rt.enable_blocked_multi_token_forwarding_kv
           => MaxStepTokenNum >= MaxSeqLen
        /\ RoundUp(MaxStepTokenNum, rt.tensor_parallel_size) \in Nat
        /\ RoundUp(MaxStepTokenNum, rt.tensor_parallel_size) >= MaxStepTokenNum
        /\ RoundUp(MaxStepTokenNum, rt.tensor_parallel_size)
              % rt.tensor_parallel_size = 0
    BY LengthTypes DEF StartInv
  <2> DEFINE step == RoundUp(MaxStepTokenNum, rt.tensor_parallel_size)
  <2>5. \/ sched.split_fuse_token_num = 0
        \/ ~rt.enable_blocked_multi_token_forwarding_kv
        => step >= MaxSeqLen
    BY <2>4
  <2>9. step > 0
    BY <2>4
  <2>6. step % rt.tensor_parallel_size = 0
    BY <2>4
  <2>7. MinFlexibleCacheNum =
          (IF dep.use_qk_norm THEN 0 ELSE dep.min_flexible_cache_num)
    BY <2>1 DEF FlexibleParsed, MinFlexibleCacheNum
  <2>8. /\ sched'.max_token_len = MaxSeqLen
        /\ cache'.min_flexible_cache_num = MinFlexibleCacheNum
        /\ rt'.max_seq_len = MaxSeqLen /\ rt'.max_step_token_num = step
        /\ rt'.max_chunked_kv_tokens = MaxChunkedKvTokens
        /\ rt'.moe_tensor_para_size =
             rt.tensor_parallel_size \div rt.expert_parallel_size
        /\ rt'.max_batch_size = sched.max_batch_size
        /\ rt'.max_pp_batch_num = sched.max_pp_batch_num
        /\ rt'.mtp_step_num = sched.mtp_step_num
        /\ rt'.enable_async = sched.enable_async
        /\ rt'.enable_executor_build_ahead = sched.enable_executor_build_ahead
        /\ rt'.separate_prefill_decode = (conn.group_role # "NONE")
        /\ rt'.is_decode_only = IsDecodeOnly
        /\ rt'.enable_prefix_caching =
             (cache.enable_prefix_caching \/ sched.split_fuse_token_num > 0)
        /\ rt'.enable_flexible_caching = (MinFlexibleCacheNum > 0)
    BY <1>2, ModelFields DEF StartInv
  <2> HIDE DEF step
  <2> QED
    BY <2>1, <2>2, <2>3, <2>4, <2>5, <2>6, <2>7, <2>8, <2>9
    DEF RtFrame, SchedFrame, BlockFrame, ModelUpdated
<1> QED BY <1>1, <1>2, StageOrder DEF StartInv

\* Both copies of the step agree until the blocks are counted.
LEMMA StepNext ==
  ASSUME StartInv, [Next]_vars, stage' \in FromFastPath \ FromSync
  PROVE  StepCopied'
<1> USE StartSteps DEF StartStep
<1>1. CASE /\ stage \in FromFastPath \ FromSync
           /\ UNCHANGED vars \/ stage # "memory"
  <2>1. StepCopied /\ stage \notin {"model", "scheduler"}
    BY <1>1, StageChain DEF StartInv, Established
  <2> QED BY <1>1, <2>1 DEF RtFrame, SchedFrame, StepCopied, vars
<1>2. CASE UpdateModelConfig
  BY <1>2, ModelFields DEF StartInv, StepCopied
<1> QED BY <1>1, <1>2, StageWindows DEF StartInv

\* The start-up gate sees what the deployment says.
LEMMA PathNext ==
  ASSUME StartInv, [Next]_vars, stage' \in FromLayout
  PROVE  PathDecided'
<1> USE StartSteps DEF StartStep
<1>1. Eligible(dep)' = Eligible(dep)
  BY DEF Eligible
<1>2. CASE stage \in FromLayout
  <2>1. PathDecided /\ stage \notin {"fast_path", "model"}
    BY <1>2, StageChain DEF StartInv, Established
  <2> QED BY <1>1, <2>1 DEF RtFrame, OtherFrame, PathDecided
<1>3. CASE InitializeAtStartup
  <2>1. stage = "fast_path"
    BY <1>3, ActionStages
  <2>2. ParallelParsed /\ BatchParsed /\ ConnectorParsed /\ ModelUpdated
    BY <2>1, StageAt, StageChain DEF StartInv, Established
  <2>3. fast_path' = StartupChecks
    BY <1>3 DEF InitializeAtStartup
  <2>4. dep \in Deployment /\ CacheTypes
    BY DEF StartInv, Types
  <2>5. rt.enable_flexible_caching <=>
          ~(dep.min_flexible_cache_num = 0 \/ dep.use_qk_norm)
    <3>1. dep.min_flexible_cache_num \in Nat
      BY <2>4 DEF Deployment
    <3> QED BY <2>2, <3>1 DEF ModelUpdated
  <2>6. rt.separate_prefill_decode <=>
          ~(dep.group_role \in {"NONE", "other"} /\ ~dep.decode_node_benchmark)
    BY <2>2 DEF ConnectorParsed, ModelUpdated, GroupRole
  <2>7. sched.enable_speculative_decoding <=>
          ~(~dep.enable_speculative_decoding \/ dep.speculative_method = "other")
    BY <2>2 DEF BatchParsed, SpeculativeMethod
  <2>8. sched.scheduler_type = "DEFAULT" <=> dep.scheduler_type # "EVENT_DRIVEN"
    <3>1. dep.scheduler_type \in SchedulerTypes \cup {"other"}
      BY <2>4 DEF Deployment
    <3> QED BY <2>2, <3>1 DEF BatchParsed, SchedulerTypes
  <2>9. StartupChecks <=> Eligible(dep)
    BY <2>2, <2>5, <2>6, <2>7, <2>8
    DEF StartupChecks, Eligible, ParallelParsed, BatchParsed, ModelUpdated
  <2>10. StartupChecks => rt.enable_async /\ rt.enable_executor_build_ahead
    BY <2>2 DEF StartupChecks, ModelUpdated
  <2> QED
    BY <1>1, <2>1, <2>3, <2>9, <2>10 DEF RtFrame, PathDecided
<1> QED BY <1>2, <1>3, StageOrder DEF StartInv

\* Nothing touches the layers before they are laid out.
LEMMA AssignedNext ==
  ASSUME StartInv, [Next]_vars,
         stage' \in ({"parallel"} \cup FromScheduler) \ FromExperts
  PROVE  (pipeline = AssignedLayers)'
<1> USE StartSteps DEF StartStep
<1>1. /\ stage \in ({"parallel"} \cup FromScheduler) \ FromExperts
      /\ UNCHANGED vars \/ stage # "layout"
  BY StageWindows DEF StartInv
<1>2. pipeline = AssignedLayers
  BY <1>1 DEF StartInv, Established
<1>3. stage # "sync"
  BY <1>1, StageAt, StageChain
<1>4. UNCHANGED pipeline
  BY <1>1, <1>3 DEF OtherFrame, vars
<1> QED BY <1>2, <1>4 DEF AssignedLayers

\* The node's layers, with the ones for multi-token prediction if it is alone.
LEMMA LayersOfNode ==
  ASSUME Types, BatchParsed, pipeline = AssignedLayers
  PROVE  /\ PipelineLayers.lower = 0
         /\ PipelineLayers.upper = dep.num_layer - 1
         /\ IF dep.world_size = 1 /\ sched.mtp_step_num > 0
            THEN /\ PipelineLayers.lower_nextn = dep.num_layer
                 /\ PipelineLayers.upper_nextn =
                      dep.num_layer + dep.num_nextn_predict_layers - 1
            ELSE PipelineLayers.lower_nextn = -1
<1>1. /\ dep.num_layer \in Nat \ {0} /\ dep.world_size \in Nat \ {0}
      /\ dep.num_nextn_predict_layers \in Nat
  BY DEF Types, Deployment
<1>2. CASE dep.world_size > 1
  <2>1. /\ pipeline.lower = 0 /\ pipeline.upper = dep.num_layer - 1
        /\ pipeline.lower_nextn = -1
    BY <1>2 DEF AssignedLayers
  <2>2. PipelineLayers = pipeline
    BY <1>1, <2>1 DEF PipelineLayers
  <2> QED BY <1>1, <1>2, <2>1, <2>2
<1>3. CASE dep.world_size = 1
  <2> DEFINE nextn == dep.num_nextn_predict_layers # 0 /\ sched.mtp_step_num > 0
             upper == dep.num_layer - 1
             lower_nextn == IF nextn THEN dep.num_layer ELSE -1
             upper_nextn == IF nextn
               THEN dep.num_layer + dep.num_nextn_predict_layers - 1 ELSE -1
  <2>1. pipeline.lower = -1
    BY <1>3 DEF AssignedLayers
  <2>2. PipelineLayers =
          [pipeline EXCEPT !.lower = 0, !.upper = upper,
             !.lower_nextn = lower_nextn, !.upper_nextn = upper_nextn]
    BY <2>1 DEF PipelineLayers
  <2>3. nextn <=> sched.mtp_step_num > 0
    <3>1. sched.mtp_step_num > 0 => dep.num_nextn_predict_layers > 0
      BY DEF BatchParsed
    <3> QED BY <1>1, <3>1
  <2> HIDE DEF nextn, upper, lower_nextn, upper_nextn
  <2>4. /\ PipelineLayers.lower = 0 /\ PipelineLayers.upper = upper
        /\ PipelineLayers.lower_nextn = lower_nextn
        /\ PipelineLayers.upper_nextn = upper_nextn
    BY <2>2 DEF Types, LayerTypes
  <2> QED BY <1>3, <2>3, <2>4 DEF upper, lower_nextn, upper_nextn
<1> QED BY <1>1, <1>2, <1>3

\* The layers and the block size stay.
LEMMA LayoutNext ==
  ASSUME StartInv, [Next]_vars, stage' \in FromExperts
  PROVE  LayoutSet'
<1> USE StartSteps DEF StartStep
<1>1. CASE stage \in FromExperts
  <2>1. LayoutSet /\ stage \notin {"layout", "scheduler"}
    BY <1>1, StageChain DEF StartInv, Established
  <2> QED
    BY <2>1 DEF RtFrame, SchedFrame, BlockFrame, OtherFrame, LayoutSet
<1>2. CASE InitializeBlockManagerConfig
  <2>1. stage = "layout"
    BY <1>2, ActionStages
  <2>2. BatchParsed /\ pipeline = AssignedLayers
    BY <2>1, StageAt, StageChain DEF StartInv, Established
  <2>3. /\ block'.block_size = dep.block_size
        /\ block'.swa_block_size = dep.swa_block_size
        /\ rt'.block_size = dep.block_size
        /\ pipeline' = PipelineLayers
    BY <1>2 DEF StartInv, Types, BlockTypes, RtTypes, RuntimeConfigs,
                InitializeBlockManagerConfig
  <2>4. sched'.mtp_step_num = sched.mtp_step_num
    BY <2>1 DEF SchedFrame
  <2> QED
    BY <2>2, <2>3, <2>4, LayersOfNode DEF StartInv, LayoutSet
<1> QED BY <1>1, <1>2, StageOrder DEF StartInv

\* The experts' groups multiply up to the devices.
LEMMA ExpertsNext ==
  ASSUME StartInv, [Next]_vars, stage' \in FromForwarding
  PROVE  ExpertsSet'
<1> USE StartSteps DEF StartStep
<1>1. CASE stage \in FromForwarding
  <2>1. ExpertsSet /\ stage \notin {"experts", "backend", "parallel"}
    BY <1>1, StageChain DEF StartInv, Established
  <2> QED BY <2>1 DEF RtFrame, OtherFrame, ExpertsSet
<1>2. CASE InitializeExpertParallelConfig
  BY <1>2 DEF StartInv, Types, LayerTypes, InitializeExpertParallelConfig,
              ExpertsSet
<1> QED BY <1>1, <1>2, StageOrder DEF StartInv

\* What the sizes are computed from stays as it was.
LEMMA SizesKept ==
  ASSUME RtFrame, SchedFrame, BlockFrame, OtherFrame, dep' = dep,
         stage \notin {"parallel", "scheduler", "block_manager", "backend",
                       "members", "model", "layout"}
  PROVE  /\ SelectEffectiveStepTokenNum' = SelectEffectiveStepTokenNum
         /\ MaxLogitsTokens' = MaxLogitsTokens
         /\ LayerNumOnNode' = LayerNumOnNode /\ HiddenWidth' = HiddenWidth
         /\ \A n : MaxTableBlockNum(n)' = MaxTableBlockNum(n)
         /\ \A t : SharedBufferUnitSize(t)' = SharedBufferUnitSize(t)
         /\ \A t : HiddenBufferSize(t)' = HiddenBufferSize(t)
<1>1. SelectEffectiveStepTokenNum' = SelectEffectiveStepTokenNum
  BY DEF RtFrame, SchedFrame, SelectEffectiveStepTokenNum,
         ComputeDecodeOnlyStepTokenNum
<1>2. MaxLogitsTokens' = MaxLogitsTokens
  BY DEF RtFrame, SchedFrame, MaxLogitsTokens
<1>3. LayerNumOnNode' = LayerNumOnNode
  BY DEF OtherFrame, LayerNumOnNode
<1>4. ASSUME NEW n PROVE MaxTableBlockNum(n)' = MaxTableBlockNum(n)
  BY DEF RtFrame, BlockFrame, MaxTableBlockNum
<1>5. /\ HeadNumPerTp' = HeadNumPerTp /\ InterSizePerTp' = InterSizePerTp
      /\ VocabSizePad' = VocabSizePad /\ LowLatencyTokens' = LowLatencyTokens
  BY DEF RtFrame, HeadNumPerTp, InterSizePerTp, VocabSizePad, LowLatencyTokens
<1>6. /\ AllToAllWidth' = AllToAllWidth /\ MaxDim' = MaxDim
      /\ LogitsWidth' = LogitsWidth /\ HiddenWidth' = HiddenWidth
      /\ MlaWidth(dep.mla_head_size)' = MlaWidth(dep.mla_head_size)
      /\ DsaWidth(dep.kv_lora_rank)' = DsaWidth(dep.kv_lora_rank)
  <2>1. /\ AllToAllWidth' = AllToAllWidth /\ HiddenWidth' = HiddenWidth
        /\ AbsorbedHeadSize' = AbsorbedHeadSize
    BY <1>5 DEF AllToAllWidth, HiddenWidth, AbsorbedHeadSize
  <2>2. /\ MlaWidth(dep.mla_head_size)' = MlaWidth(dep.mla_head_size)
        /\ MlaWidth(dep.kv_lora_rank)' = MlaWidth(dep.kv_lora_rank)
        /\ MlaWidth(AbsorbedHeadSize)' = MlaWidth(AbsorbedHeadSize)
    BY <1>5, <2>1 DEF MlaWidth
  <2>3. /\ DsaWidth(dep.kv_lora_rank)' = DsaWidth(dep.kv_lora_rank)
        /\ DsaWidth(AbsorbedHeadSize)' = DsaWidth(AbsorbedHeadSize)
    BY <2>2 DEF DsaWidth
  <2>4. MaxDim' = MaxDim
    BY <1>5, <2>1, <2>2, <2>3 DEF RtFrame, MaxDim
  <2>5. LogitsWidth' = LogitsWidth
    BY <1>5, <2>2 DEF LogitsWidth
  <2> QED BY <2>1, <2>2, <2>3, <2>4, <2>5
<1>7. ASSUME NEW t
      PROVE  AllToAllHiddenSize(t)' = AllToAllHiddenSize(t)
  BY <1>5, <1>6 DEF RtFrame, AllToAllHiddenSize
<1>8. ASSUME NEW t
      PROVE  SharedBufferUnitSize(t)' = SharedBufferUnitSize(t)
  BY <1>5, <1>6, <1>7 DEF SchedFrame, SharedBufferUnitSize
<1>9. ASSUME NEW t
      PROVE  HiddenBufferSize(t)' = HiddenBufferSize(t)
  BY <1>2, <1>6, <1>8 DEF RtFrame, HiddenBufferSize
<1> QED BY <1>1, <1>2, <1>3, <1>4, <1>6, <1>8, <1>9

\* The buffers have the sizes that their formulas still give.
LEMMA BuffersNext ==
  ASSUME StartInv, [Next]_vars, stage' \in FromMemory
  PROVE  BuffersSized'
<1> USE StartSteps DEF StartStep
<1>1. CASE stage \in FromMemory
  <2>1. /\ BuffersSized
        /\ stage \notin {"parallel", "scheduler", "block_manager", "backend",
                         "members", "model", "layout", "fast_path",
                         "forwarding"}
    BY <1>1, StageChain DEF StartInv, Established
  <2>2. UNCHANGED <<forwarding, fast_path>>
    BY <2>1 DEF OtherFrame
  <2>3. sched'.mtp_step_num = sched.mtp_step_num
    BY <2>1 DEF SchedFrame
  <2> QED BY <2>1, <2>2, <2>3, SizesKept DEF BuffersSized
<1>2. CASE ForwardingContextInit
  <2>1. stage = "forwarding"
    BY <1>2, ActionStages
  <2>2. /\ forwarding'.tokens = SelectEffectiveStepTokenNum
        /\ forwarding'.logits = MaxLogitsTokens
        /\ forwarding'.hidden_buffer =
             HiddenBufferSize(SelectEffectiveStepTokenNum)
        /\ forwarding'.shared_buffer =
             SelectEffectiveStepTokenNum
               * SharedBufferUnitSize(SelectEffectiveStepTokenNum)
        /\ forwarding'.mtp_hidden_buffer =
             (IF sched.mtp_step_num > 0
              THEN SelectEffectiveStepTokenNum * HiddenWidth ELSE 0)
        /\ forwarding'.layers = LayerNumOnNode
        /\ forwarding'.table_blocks =
             MaxTableBlockNum(dep.device_free + dep.allocated_later)
        /\ forwarding'.slots = (IF fast_path THEN 2 ELSE 1)
    BY <1>2 DEF ForwardingContextInit
  <2>3. fast_path' = fast_path /\ sched'.mtp_step_num = sched.mtp_step_num
    BY <2>1 DEF OtherFrame, SchedFrame
  <2> QED BY <2>1, <2>2, <2>3, SizesKept DEF BuffersSized
<1> QED BY <1>1, <1>2, StageOrder DEF StartInv

\* The same of the blocks: nothing that their number is divided from changes.
LEMMA BlockNumKept ==
  ASSUME RtFrame, SchedFrame, BlockFrame, dep' = dep,
         stage \notin {"scheduler", "block_manager", "members", "layout"}
  PROVE  /\ DeviceBlocksNum' = DeviceBlocksNum
         /\ UsableTokens' = UsableTokens /\ MemoryValid' = MemoryValid
<1>1. DeviceBlockMemory' = DeviceBlockMemory
  BY DEF BlockFrame, DeviceBlockMemory
<1>2. EffectiveBlockSize' = EffectiveBlockSize
  BY DEF BlockFrame, SchedFrame, EffectiveBlockSize
<1>3. DeviceBlocksNum' = DeviceBlocksNum
  BY <1>1, <1>2 DEF DeviceBlocksNum
<1>4. UsableTokens' = UsableTokens
  BY <1>3 DEF BlockFrame, SchedFrame, UsableTokens
<1>5. MemoryValid' = MemoryValid
  BY <1>3 DEF BlockFrame, SchedFrame, MemoryValid
<1> QED BY <1>3, <1>4, <1>5

\* Blocks are not counted before their size is known.
LEMMA BlockSizeSet ==
  ASSUME StartInv, stage \in FromExperts
  PROVE  block.block_size > 0 /\ block.block_token_num > 0
<1>1. LayoutSet /\ BlockParsed
  BY StageChain DEF StartInv, Established
<1>2. dep.block_size \in Nat \ {0} /\ BlockTokenNum \in Nat \ {0}
  BY DepTypes DEF StartInv, Types, Deployment
<1> QED BY <1>1, <1>2 DEF LayoutSet, BlockParsed

\* What was planned from the counted blocks stays within them.
LEMMA BlocksNext ==
  ASSUME StartInv, [Next]_vars, stage' \in FromSync
  PROVE  BlocksCounted'
<1> USE StartSteps DEF StartStep
<1>1. CASE /\ stage \in FromSync
           /\ UNCHANGED block
  <2>1. /\ BlocksCounted
        /\ stage \notin {"scheduler", "block_manager", "members", "layout",
                         "model", "memory"}
    BY <1>1, StageChain DEF StartInv, Established
  <2>2. /\ sched'.swa_block_num_ratio = sched.swa_block_num_ratio
        /\ sched'.max_step_token_num = sched.max_step_token_num
        /\ rt'.max_step_token_num = rt.max_step_token_num
    BY <2>1 DEF RtFrame, SchedFrame
  <2> QED BY <1>1, <2>1, <2>2, BlockNumKept DEF BlocksCounted
<1>2. CASE CalculateBlockNumber
  <2>1. stage = "memory"
    BY <1>2, ActionStages
  <2>2. StepCopied /\ MemoryValid
    BY <1>2, <2>1, StageAt, StageChain
    DEF StartInv, Established, CalculateBlockNumber
  <2>3. block.block_size > 0
    BY <2>1, StageAt, StageChain, BlockSizeSet
  <2>4. DeviceBlocksNum \in Nat
    BY <2>3, BlockNumTypes DEF StartInv
  <2>5. /\ sched'.max_step_token_num =
             Smaller(rt.max_step_token_num, UsableTokens)
        /\ block'.device_blocks = DeviceBlocksNum
        /\ block'.swa_blocks = SwaBlocks(DeviceBlocksNum)
    BY <1>2, <2>2 DEF StartInv, Types, SchedTypes, SchedulerConfigs, BlockTypes,
                      StepCopied, CalculateBlockNumber
  <2>6. /\ rt'.max_step_token_num = rt.max_step_token_num
        /\ block'.swa_block_size = block.swa_block_size
        /\ sched'.swa_block_num_ratio = sched.swa_block_num_ratio
    BY <2>1 DEF RtFrame, BlockFrame, SchedFrame
  <2>7. /\ MemoryValid' /\ DeviceBlocksNum' = DeviceBlocksNum
        /\ UsableTokens' = UsableTokens
    BY <2>1, <2>2, BlockNumKept
  <2>8. block'.device_blocks <= DeviceBlocksNum
    BY <2>4, <2>5
  <2>9. block'.swa_block_size > 0 =>
          block'.swa_blocks =
            Tenths(sched'.swa_block_num_ratio, block'.device_blocks)
    BY <2>5, <2>6 DEF SwaBlocks
  <2>10. sched'.max_step_token_num =
           Smaller(rt'.max_step_token_num, UsableTokens')
    BY <2>5, <2>6, <2>7
  <2> QED BY <2>5, <2>7, <2>8, <2>9, <2>10 DEF BlocksCounted
<1>3. CASE ResetPipelineBlockNumber /\ ~UNCHANGED block
  <2>1. stage = "sync" /\ dep.world_size > 1
    BY <1>3, ActionStages DEF ResetPipelineBlockNumber
  <2>2. BlocksCounted /\ LayoutSet
    BY <2>1, StageAt, StageChain DEF StartInv, Established
  <2>3. DeviceBlocksNum \in Nat
    BY <2>1, StageAt, StageChain, BlockSizeSet, BlockNumTypes DEF StartInv
  <2> DEFINE agreed == AgreedBlockNum(block.device_blocks)
  <2>4. agreed \in Nat /\ agreed <= block.device_blocks
    <3>1. dep.peer_block_num \in Nat /\ block.device_blocks \in Nat
      BY DEF StartInv, Types, Deployment, BlockTypes
    <3> QED BY <3>1 DEF AgreedBlockNum, Smaller
  <2>5. pipeline'.device_block_num = agreed
    BY <1>3, <2>1 DEF StartInv, Types, LayerTypes, ResetPipelineBlockNumber
  <2> HIDE DEF agreed
  <2>6. /\ block'.device_blocks = agreed
        /\ block'.swa_blocks = SwaBlocks(agreed)
    BY <1>3, <2>1, <2>5 DEF StartInv, Types, BlockTypes, ResetPipelineBlockNumber
  <2>7. /\ rt'.max_step_token_num = rt.max_step_token_num
        /\ sched'.max_step_token_num = sched.max_step_token_num
        /\ block'.swa_block_size = block.swa_block_size
        /\ sched'.swa_block_num_ratio = sched.swa_block_num_ratio
    BY <2>1 DEF RtFrame, BlockFrame, SchedFrame
  <2>8. block.device_blocks \in Nat
    BY DEF StartInv, Types, BlockTypes
  <2>9. /\ MemoryValid' /\ DeviceBlocksNum' = DeviceBlocksNum
        /\ UsableTokens' = UsableTokens
    BY <2>1, <2>2, BlockNumKept DEF BlocksCounted
  <2>10. block'.device_blocks <= DeviceBlocksNum /\ dep.world_size # 1
    BY <2>1, <2>2, <2>3, <2>4, <2>6, <2>8 DEF BlocksCounted
  <2>11. block'.swa_block_size > 0 =>
           block'.swa_blocks =
             Tenths(sched'.swa_block_num_ratio, block'.device_blocks)
    BY <2>6, <2>7 DEF SwaBlocks
  <2>12. sched'.max_step_token_num =
           Smaller(rt'.max_step_token_num, UsableTokens')
    BY <2>2, <2>7, <2>9 DEF BlocksCounted
  <2> QED BY <2>9, <2>10, <2>11, <2>12 DEF BlocksCounted
<1>4. stage \in FromSync =>
        UNCHANGED block \/ (ResetPipelineBlockNumber /\ ~UNCHANGED block)
  <2>1. stage \in FromSync => stage \in {"sync", "serving"}
    BY DEF FromSync, FromServing
  <2>2. stage' # "rejected"
    BY DEF FromSync, FromServing
  <2> QED BY <2>1, <2>2, StageNext DEF vars
<1> QED BY <1>1, <1>2, <1>3, <1>4, StageOrder DEF StartInv

\* Before anything is parsed only the assigned layers and the types matter.
LEMMA StartInit == Init => StartInv
<1> SUFFICES ASSUME Init PROVE StartInv
  OBVIOUS
<1>1. Types
  BY TypesInit
<1>2. stage = "parallel" /\ dep \in Deployments
  BY DEF Init
<1>3. GccInv /\ pipeline = AssignedLayers
  BY DEF Init, GccInv
<1>4. Established
  BY <1>2, <1>3, StageChain DEF Established
<1> QED BY <1>1, <1>2, <1>4 DEF StartInv, AllStages

\* Every step keeps the invariant of the start.
LEMMA StartNext ==
  ASSUME StartInv, [Next]_vars
  PROVE  StartInv'
<1>1. dep' \in Deployments /\ stage' \in AllStages
  BY StageOrder DEF StartInv
<1>2. stage = "memory" => block.block_size > 0 /\ block.block_token_num > 0
  BY StageAt, StageChain, BlockSizeSet
<1>3. Types'
  BY <1>2, TypesNext DEF StartInv
<1>4. Established'
  BY ParallelNext, BatchNext, BlockNext, FlexibleNext, BackendNext,
     ConnectorNext, GccNext, ModelNext, StepNext, PathNext, AssignedNext,
     LayoutNext, ExpertsNext, BuffersNext, BlocksNext
  DEF Established
<1> QED BY <1>1, <1>3, <1>4 DEF StartInv

\* Every stage finds what the earlier ones established, whatever the
\* deployment says.
THEOREM StartCorrect == Spec => []StartInv
<1>1. Init => StartInv
  BY StartInit
<1>2. StartInv /\ [Next]_vars => StartInv'
  BY StartNext
<1> QED BY <1>1, <1>2, PTL DEF Spec

-----------------------------------------------------------------------------
(***************************************************************************)
(* What the threads of a serving node rely on.                             *)
(***************************************************************************)

\* A serving node is past every stage.
LEMMA WhenServing ==
  ASSUME StartInv, Serving
  PROVE  /\ Types
         /\ ParallelParsed /\ BatchParsed /\ BlockParsed /\ BackendParsed
         /\ ConnectorParsed /\ GccInv /\ ModelUpdated /\ PathDecided
         /\ LayoutSet /\ ExpertsSet /\ BuffersSized /\ BlocksCounted
  BY StageAt, StageChain DEF StartInv, Established, Serving

\* The numbers that a serving node has parsed.
LEMMA ServingTypes ==
  ASSUME StartInv, Serving
  PROVE  /\ rt.tensor_parallel_size \in Nat \ {0}
         /\ rt.attn_data_parallel_size \in Nat \ {0}
         /\ rt.expert_parallel_size \in Nat \ {0}
         /\ rt.expert_world_size \in Nat \ {0}
         /\ rt.max_batch_size \in Nat \ {0} /\ rt.mtp_step_num \in Nat
         /\ rt.max_step_token_num \in Nat \ {0} /\ rt.max_seq_len \in Nat
         /\ sched.mtp_step_num \in Nat /\ sched.ptp_step_num \in Nat
         /\ sched.max_decode_tokens_per_req \in Nat \ {0}
         /\ sched.max_step_token_num \in Nat \ {0}
         /\ sched.launch_block_threshold \in Nat
         /\ UsableTokens \in Nat \ {0} /\ DeviceBlocksNum \in Nat
         /\ block.device_blocks \in Nat /\ block.block_token_num \in Nat \ {0}
         /\ forwarding.tokens \in Nat \ {0}
<1>1. Types /\ ModelUpdated /\ BlocksCounted /\ BuffersSized
  BY WhenServing
<1>2. block.block_size > 0 /\ block.block_token_num > 0
  BY BlockSizeSet, StageAt, StageChain DEF Serving
<1>3. /\ rt.tensor_parallel_size \in Nat \ {0}
      /\ rt.attn_data_parallel_size \in Nat \ {0}
      /\ rt.expert_parallel_size \in Nat \ {0}
      /\ rt.expert_world_size \in Nat \ {0}
      /\ rt.mtp_step_num \in Nat
      /\ rt.max_step_token_num \in Nat /\ rt.max_seq_len \in Nat
  BY <1>1 DEF Types, RtTypes, RuntimeConfigs
<1>4. /\ sched.max_batch_size \in Nat \ {0}
      /\ sched.mtp_step_num \in Nat /\ sched.ptp_step_num \in Nat
      /\ sched.max_decode_tokens_per_req \in Nat \ {0}
      /\ sched.max_step_token_num \in Nat \ {0}
      /\ sched.launch_block_threshold \in Nat
  BY <1>1 DEF Types, SchedTypes, SchedulerConfigs
<1>5. rt.max_batch_size \in Nat \ {0} /\ rt.max_step_token_num \in Nat \ {0}
  BY <1>1, <1>3, <1>4 DEF ModelUpdated
<1>6. block.device_blocks \in Nat /\ block.block_token_num \in Nat \ {0}
  BY <1>1, <1>2 DEF Types, BlockTypes
<1>7. UsableTokens \in Nat \ {0} /\ DeviceBlocksNum \in Nat
  BY <1>1, <1>2, UsableTypes, BlockNumTypes DEF BlocksCounted
<1>8. forwarding.tokens \in Nat \ {0}
  <2>1. ComputeDecodeOnlyStepTokenNum \in Nat \ {0}
    <3>1. rt.max_batch_size * Larger(sched.max_decode_tokens_per_req, 1)
            \in Nat \ {0}
      BY <1>4, <1>5, TimesPositive DEF Larger
    <3> QED BY <1>3, <3>1, TimesPositive DEF ComputeDecodeOnlyStepTokenNum
  <2> QED BY <1>1, <1>5, <2>1 DEF BuffersSized, SelectEffectiveStepTokenNum
<1> QED BY <1>3, <1>4, <1>5, <1>6, <1>7, <1>8

\* Build-ahead is on exactly for the deployments that the operator's settings
\* make eligible: none of the copies and overrides on the way to the gate in
\* FastPathController::InitializeAtStartup turns it on or off by accident; and
\* its second model input was allocated.
THEOREM FastPathIffEligibleCorrect == Spec => []FastPathIffEligible
<1>1. ASSUME StartInv PROVE FastPathIffEligible
  <2> SUFFICES ASSUME Serving
               PROVE  /\ fast_path <=> Eligible(dep)
                      /\ fast_path <=> forwarding.slots = 2
                      /\ fast_path => /\ rt.enable_async
                                      /\ rt.enable_executor_build_ahead
    BY DEF FastPathIffEligible
  <2>1. PathDecided /\ BuffersSized
    BY <1>1, WhenServing
  <2> QED BY <2>1 DEF PathDecided, BuffersSized
<1> QED BY <1>1, StartCorrect, PTL

\* The stages by their numbers in the sequence Stages.
LEMMA StagesListed ==
  stage \in AllStages =>
    stage \in {Stages[i] : i \in DOMAIN Stages} \cup {"rejected"}
<1>1. /\ DOMAIN Stages = 1..15
      /\ Stages[1] = "parallel" /\ Stages[2] = "scheduler"
      /\ Stages[3] = "block_manager" /\ Stages[4] = "backend"
      /\ Stages[5] = "connector" /\ Stages[6] = "global_cache"
      /\ Stages[7] = "members" /\ Stages[8] = "model"
      /\ Stages[9] = "fast_path" /\ Stages[10] = "layout"
      /\ Stages[11] = "experts" /\ Stages[12] = "forwarding"
      /\ Stages[13] = "memory" /\ Stages[14] = "sync"
      /\ Stages[15] = "serving"
  BY DEF Stages
<1>2. AllStages = {"rejected", "parallel", "scheduler", "block_manager",
         "backend", "connector", "global_cache", "members", "model",
         "fast_path", "layout", "experts", "forwarding", "memory", "sync",
         "serving"}
  BY DEF FromServing, FromSync, FromMemory, FromForwarding, FromExperts,
         FromLayout, FromFastPath, FromModel, FromMembers, FromGlobalCache,
         FromConnector, FromBackend, FromBlockManager, FromScheduler, AllStages
<1> QED BY <1>1, <1>2

\* The shapes of the structures, as the run checks them.
LEMMA TypeOKHolds ==
  ASSUME StartInv
  PROVE  TypeOK
<1>1. dep \in Deployment /\ OtherTypes
  BY DEF StartInv, Types
<1>2. stage \in {Stages[i] : i \in DOMAIN Stages} \cup {"rejected"}
  BY StagesListed DEF StartInv
<1>3. /\ sched.max_step_token_num \in Nat /\ sched.split_fuse_token_num \in Nat
      /\ sched.scheduler_type \in SchedulerTypes
  BY DEF StartInv, Types, SchedTypes, SchedulerConfigs
<1>4. /\ cache.enable_prefix_caching \in BOOLEAN
      /\ block.device_blocks \in Nat /\ block.block_token_num \in Nat
  BY DEF StartInv, Types, CacheTypes, BlockTypes
<1>5. /\ rt.tensor_parallel_size \in Nat \ {0}
      /\ rt.attn_data_parallel_size \in Nat \ {0}
      /\ rt.kv_cache_dtype \in KvCacheDtypes
      /\ rt.moe_all_to_all_mode \in AllToAllModes
      /\ rt.max_step_token_num \in Nat
  BY DEF StartInv, Types, RtTypes, RuntimeConfigs
<1>6. conn.group_role \in GroupRoles
  BY DEF StartInv, Types, LinkTypes
<1> QED BY <1>1, <1>2, <1>3, <1>4, <1>5, <1>6 DEF TypeOK, OtherTypes

\* Copies that the parser takes at different stages, some before a later stage
\* changes what they were taken from, agree in the node that serves.
THEOREM CopiesAgreeCorrect == Spec => []CopiesAgree
<1>1. ASSUME StartInv PROVE CopiesAgree
  <2>1. TypeOK
    BY <1>1, TypeOKHolds
  <2>2. ASSUME Serving
        PROVE  /\ {block.block_token_num, cache.block_token_num,
                   rt.block_token_num} = {BlockTokenNum}
               /\ gcc.configured => gcc.block_token_num = BlockTokenNum
               /\ block.block_size = rt.block_size
               /\ cache.tensor_para_size = rt.tensor_parallel_size
               /\ rt.mtp_step_num = sched.mtp_step_num
               /\ pd_v2.group_role = conn.group_role
               /\ pd_v2.is_pd_v2 = conn.is_pd_v2
               /\ rt.enable_flexible_caching <=> cache.min_flexible_cache_num > 0
               /\ sched.split_fuse_token_num > 0 \/ cache.enable_prefix_caching
                    <=> rt.enable_prefix_caching
               /\ sched.max_step_token_num <= rt.max_step_token_num
               /\ rt.max_step_token_num % rt.tensor_parallel_size = 0
    <3>1. BlockParsed /\ GccInv /\ LayoutSet /\ ModelUpdated /\ ConnectorParsed
          /\ BlocksCounted
      BY <1>1, <2>2, WhenServing
    <3>2. sched.max_step_token_num <= rt.max_step_token_num
      <4>1. rt.max_step_token_num \in Nat /\ UsableTokens \in Nat
        BY <1>1, <2>2, ServingTypes
      <4> QED BY <3>1, <4>1 DEF BlocksCounted, Smaller
    <3>3. {block.block_token_num, cache.block_token_num, rt.block_token_num}
            = {BlockTokenNum}
      BY <3>1 DEF BlockParsed
    <3>4. /\ gcc.configured => gcc.block_token_num = BlockTokenNum
          /\ block.block_size = rt.block_size
          /\ cache.tensor_para_size = rt.tensor_parallel_size
          /\ pd_v2.group_role = conn.group_role
          /\ pd_v2.is_pd_v2 = conn.is_pd_v2
      BY <3>1 DEF GccInv, LayoutSet, BlockParsed, ConnectorParsed
    <3>5. /\ rt.mtp_step_num = sched.mtp_step_num
          /\ rt.enable_flexible_caching <=> cache.min_flexible_cache_num > 0
          /\ sched.split_fuse_token_num > 0 \/ cache.enable_prefix_caching
               <=> rt.enable_prefix_caching
          /\ rt.max_step_token_num % rt.tensor_parallel_size = 0
      BY <3>1 DEF ModelUpdated
    <3> QED BY <3>2, <3>3, <3>4, <3>5
  <2> QED BY <2>1, <2>2 DEF CopiesAgree
<1> QED BY <1>1, StartCorrect, PTL

\* The g-th of a row of equal groups of numbers.
GroupOf(g, m) == {g * m + i : i \in 0..m - 1}

\* A row of n equal groups covers the numbers below k.
LEMMA GroupsCover ==
  ASSUME NEW m \in Nat \ {0}, NEW n \in Nat \ {0}, NEW k \in Nat, m * n = k
  PROVE  /\ \A g \in 0..n - 1 : GroupOf(g, m) \subseteq 0..k - 1
         /\ \A d \in 0..k - 1 : \E g \in 0..n - 1 : d \in GroupOf(g, m)
         /\ \A g \in 0..n - 1 : Cardinality(GroupOf(g, m)) = m
<1>0. m * n \in Nat
  BY TimesNat
<1>1. ASSUME NEW g \in 0..n - 1
      PROVE  g * m \in Nat /\ g * m + m <= m * n
  <2>1. g \in Nat /\ n - 1 - g \in Nat
    OBVIOUS
  <2>2. g * m \in Nat /\ (n - 1 - g) * m \in Nat
    BY <2>1, TimesNat
  <2>3. m * n = g * m + m + (n - 1 - g) * m
    BY <2>1, Z3
  <2> QED BY <1>0, <2>2, <2>3
<1>2. ASSUME NEW g \in 0..n - 1
      PROVE  GroupOf(g, m) = g * m..g * m + m - 1
  <2>1. g * m \in Nat
    BY <1>1
  <2> DEFINE start == g * m
  <2>2. start \in Nat
    BY <2>1
  <2> HIDE DEF start
  <2>3. {start + i : i \in 0..m - 1} = start..start + m - 1
    <3>1. ASSUME NEW d \in start..start + m - 1
          PROVE  d \in {start + i : i \in 0..m - 1}
      <4>1. d - start \in 0..m - 1 /\ d = start + (d - start)
        BY <2>2
      <4> QED BY <4>1
    <3>2. \A i \in 0..m - 1 : start + i \in start..start + m - 1
      BY <2>2
    <3> QED BY <3>1, <3>2
  <2> QED BY <2>3 DEF start, GroupOf
<1>3. ASSUME NEW g \in 0..n - 1
      PROVE  Cardinality(GroupOf(g, m)) = m
  <2>1. g * m \in Nat
    BY <1>1
  <2>2. g * m \in Int /\ g * m + m - 1 \in Int
    BY <2>1
  <2>3. Cardinality(g * m..g * m + m - 1) =
          IF g * m > g * m + m - 1 THEN 0 ELSE g * m + m - 1 - g * m + 1
    BY <2>2, FS_Interval
  <2>4. Cardinality(g * m..g * m + m - 1) = m
    BY <2>1, <2>3
  <2> QED BY <1>2, <2>4
<1>4. ASSUME NEW g \in 0..n - 1
      PROVE  GroupOf(g, m) \subseteq 0..k - 1
  <2>1. g * m \in Nat /\ g * m + m <= k
    BY <1>1
  <2> DEFINE start == g * m
  <2>2. start \in Nat /\ start + m <= k /\ GroupOf(g, m) = start..start + m - 1
    BY <1>2, <2>1
  <2> HIDE DEF start
  <2> QED BY <2>2
<1>5. ASSUME NEW d \in 0..k - 1
      PROVE  \E g \in 0..n - 1 : d \in GroupOf(g, m)
  <2>1. d \in Nat
    OBVIOUS
  <2>2. d \div m \in Nat /\ (d \div m) * m <= d /\ d < (d \div m) * m + m
    BY <2>1, Z3
  <2>3. d \div m < n
    <3>1. SUFFICES ASSUME d \div m >= n PROVE FALSE
      BY <2>2
    <3>2. (d \div m) - n \in Nat
      BY <2>2, <3>1
    <3>3. ((d \div m) - n) * m \in Nat
      BY <3>2, TimesNat
    <3>4. (d \div m) * m = n * m + ((d \div m) - n) * m
      BY <2>2, Z3
    <3>5. n * m = m * n
      BY Z3
    <3> QED BY <1>0, <2>2, <3>3, <3>4, <3>5
  <2>4. d \div m \in 0..n - 1
    BY <2>2, <2>3
  <2>5. d \in (d \div m) * m..(d \div m) * m + m - 1
    <3>1. (d \div m) * m \in Nat
      BY <2>2, TimesNat
    <3> QED BY <2>1, <2>2, <3>1
  <2> QED BY <1>2, <2>4, <2>5
<1> QED BY <1>3, <1>4, <1>5

\* The groups of data parallelism and of the experts divide the devices, in
\* every structure that holds a part of the arithmetic.
THEOREM ParallelTopologyCorrect == Spec => []ParallelTopology
<1>1. ASSUME StartInv, Serving
      PROVE  /\ UNION {GetDataParaGroupDevices(g) :
                         g \in 0..rt.attn_data_parallel_size - 1}
                  = 0..rt.tensor_parallel_size - 1
             /\ \A g \in 0..rt.attn_data_parallel_size - 1 :
                  Cardinality(GetDataParaGroupDevices(g))
                    = rt.attn_tensor_parallel_size
             /\ rt.attn_tensor_parallel_size * rt.attn_data_parallel_size
                  = rt.tensor_parallel_size
             /\ rt.moe_tensor_para_size * rt.expert_parallel_size
                  = rt.tensor_parallel_size
             /\ expert.expert_tensor_para_size * expert.expert_para_size
                  = rt.tensor_parallel_size
             /\ expert.global_expert_para_size
                  = rt.expert_world_size * rt.expert_parallel_size
             /\ rt.moe_all_to_all_mode # "DISABLED" =>
                  rt.attn_tensor_parallel_size = 1
  <2> DEFINE tp == rt.tensor_parallel_size
             dp == rt.attn_data_parallel_size
             size == tp \div dp
  <2>1. /\ ParallelParsed /\ BackendParsed /\ ModelUpdated /\ ExpertsSet
    BY <1>1, WhenServing
  <2>2. /\ tp \in Nat \ {0} /\ dp \in Nat \ {0}
        /\ rt.expert_parallel_size \in Nat \ {0}
    BY <1>1, ServingTypes
  <2>3. tp % dp = 0 /\ rt.attn_tensor_parallel_size = size
    BY <2>1 DEF ParallelParsed, ParallelSizesValid
  <2>4. size * dp = tp
    BY <2>2, <2>3, DivExact
  <2>5. size \in Nat \ {0}
    <3>1. size \in Nat
      BY <2>2, DivNat
    <3>2. size # 0
      BY <2>2, <2>4, <3>1
    <3> QED BY <3>1, <3>2
  <2>6. \A g : GetDataParaGroupDevices(g) = GroupOf(g, size)
    BY DEF GetDataParaGroupDevices, GroupOf
  <2>7. /\ UNION {GetDataParaGroupDevices(g) : g \in 0..dp - 1} = 0..tp - 1
        /\ \A g \in 0..dp - 1 : Cardinality(GetDataParaGroupDevices(g)) = size
    <3>1. size * dp = tp /\ size \in Nat \ {0} /\ dp \in Nat \ {0}
      BY <2>2, <2>4, <2>5
    <3> HIDE DEF size, tp, dp
    <3>0. tp \in Nat
      BY <2>2
    <3>2. /\ \A g \in 0..dp - 1 : GroupOf(g, size) \subseteq 0..tp - 1
          /\ \A d \in 0..tp - 1 : \E g \in 0..dp - 1 : d \in GroupOf(g, size)
          /\ \A g \in 0..dp - 1 : Cardinality(GroupOf(g, size)) = size
      BY <3>0, <3>1, GroupsCover
    <3>3. UNION {GetDataParaGroupDevices(g) : g \in 0..dp - 1} = 0..tp - 1
      BY <2>6, <3>2
    <3> QED BY <2>6, <3>2, <3>3
  <2>8. /\ rt.moe_tensor_para_size * rt.expert_parallel_size = tp
        /\ expert.expert_tensor_para_size * expert.expert_para_size = tp
    <3>1. (tp \div rt.expert_parallel_size) * rt.expert_parallel_size = tp
      BY <2>1, <2>2, DivExact DEF ModelUpdated, ExpertsDivisible
    <3> QED BY <2>1, <3>1 DEF ModelUpdated, ExpertsSet
  <2>9. expert.global_expert_para_size
          = rt.expert_world_size * rt.expert_parallel_size
    BY <2>1 DEF ExpertsSet, BackendParsed, ParallelParsed
  <2>10. rt.moe_all_to_all_mode # "DISABLED" => size = 1
    <3>1. tp \div tp = 1
      BY <2>2, Z3
    <3> QED BY <2>1, <3>1 DEF BackendParsed
  <2> QED BY <2>3, <2>4, <2>7, <2>8, <2>9, <2>10
<1>2. StartInv => ParallelTopology
  BY <1>1 DEF ParallelTopology
<1> QED BY <1>2, StartCorrect, PTL

\* A step of multi-token prediction finds the kernels, the draft slots, the
\* model's extra layers and their buffer, whichever stage decides about each.
THEOREM MtpSupportedCorrect == Spec => []MtpSupported
<1>1. ASSUME StartInv, Serving
      PROVE  IF rt.mtp_step_num > 0
             THEN /\ rt.enable_blocked_multi_token_forwarding_kv
                  /\ sched.ptp_step_num = 0
                  /\ forwarding.logits
                       >= rt.max_batch_size * (rt.mtp_step_num + 1)
                  /\ dep.world_size = 1 => forwarding.layers > dep.num_layer
                  /\ forwarding.mtp_hidden_buffer >= forwarding.tokens
             ELSE forwarding.layers = dep.num_layer
  <2>1. /\ BatchParsed /\ BackendParsed /\ ModelUpdated /\ LayoutSet
        /\ BuffersSized
    BY <1>1, WhenServing
  <2>2. /\ rt.max_batch_size \in Nat \ {0} /\ rt.mtp_step_num \in Nat
        /\ forwarding.tokens \in Nat \ {0} /\ sched.mtp_step_num \in Nat
    BY <1>1, ServingTypes
  <2>3. /\ dep.num_layer \in Nat \ {0} /\ dep.hidden_units \in Nat \ {0}
        /\ dep.num_nextn_predict_layers \in Nat
    BY <1>1 DEF StartInv, Types, Deployment
  <2>4. rt.mtp_step_num = sched.mtp_step_num
    BY <2>1 DEF ModelUpdated
  <2>5. /\ pipeline.lower = 0 /\ pipeline.upper = dep.num_layer - 1
        /\ IF dep.world_size = 1 /\ sched.mtp_step_num > 0
           THEN /\ pipeline.lower_nextn = dep.num_layer
                /\ pipeline.upper_nextn =
                     dep.num_layer + dep.num_nextn_predict_layers - 1
           ELSE pipeline.lower_nextn = -1
    BY <2>1 DEF LayoutSet
  <2>6. forwarding.layers = LayerNumOnNode
    BY <2>1 DEF BuffersSized
  <2>7. CASE rt.mtp_step_num > 0
    <3>1. /\ rt.enable_blocked_multi_token_forwarding_kv
          /\ sched.ptp_step_num = 0 /\ dep.num_nextn_predict_layers > 0
      BY <2>1, <2>4, <2>7 DEF BackendParsed, BatchParsed
    <3>2. forwarding.logits = rt.max_batch_size * (rt.mtp_step_num + 1)
      <4>1. sched.max_decode_tokens_per_req = sched.mtp_step_num + 1
        <5>1. sched.max_decode_tokens_per_req =
                sched.mtp_step_num + 2 * sched.ptp_step_num + 1
          BY <2>1 DEF BatchParsed
        <5> QED BY <2>2, <3>1, <5>1
      <4> QED BY <2>1, <2>4, <4>1 DEF BuffersSized, MaxLogitsTokens
    <3>3. forwarding.logits >= rt.max_batch_size * (rt.mtp_step_num + 1)
      <4>1. rt.max_batch_size * (rt.mtp_step_num + 1) \in Nat
        BY <2>2, TimesNat
      <4> QED BY <3>2, <4>1
    <3>4. dep.world_size = 1 => forwarding.layers > dep.num_layer
      BY <2>3, <2>4, <2>5, <2>6, <2>7, <3>1 DEF LayerNumOnNode
    <3>5. forwarding.mtp_hidden_buffer >= forwarding.tokens
      <4>1. forwarding.mtp_hidden_buffer = forwarding.tokens * HiddenWidth
        BY <2>1, <2>4, <2>7 DEF BuffersSized
      <4>2. HiddenWidth \in Nat \ {0}
        <5>1. /\ dep.hidden_units \in Nat \ {0} /\ dep.hc_mult \in Nat \ {0}
          BY <1>1 DEF StartInv, Types, Deployment
        <5>2. /\ dep.hidden_units * dep.hc_mult \in Nat
              /\ dep.hidden_units * dep.hc_mult >= dep.hidden_units
          BY <5>1, TimesNat, TimesGrows
        <5> QED BY <5>1, <5>2 DEF HiddenWidth
      <4> QED BY <2>2, <4>1, <4>2, TimesGrows
    <3> QED BY <2>7, <3>1, <3>3, <3>4, <3>5
  <2>8. CASE ~(rt.mtp_step_num > 0)
    BY <2>3, <2>4, <2>5, <2>6, <2>8 DEF LayerNumOnNode
  <2> QED BY <2>7, <2>8
<1>2. StartInv => MtpSupported
  BY <1>1 DEF MtpSupported
<1> QED BY <1>2, StartCorrect, PTL

\* A pipeline may lower the number of blocks that was counted.
LEMMA UsableOfFewer ==
  ASSUME StartInv, Serving
  PROVE  (block.device_blocks - sched.launch_block_threshold)
           * block.block_token_num <= UsableTokens
<1>1. /\ sched.launch_block_threshold \in Nat /\ DeviceBlocksNum \in Nat
      /\ block.device_blocks \in Nat /\ block.block_token_num \in Nat
      /\ block.device_blocks <= DeviceBlocksNum
  BY ServingTypes, WhenServing DEF BlocksCounted
<1>2. block.device_blocks - sched.launch_block_threshold
        <= DeviceBlocksNum - sched.launch_block_threshold
  BY <1>1
<1> QED BY <1>1, <1>2, TimesMono DEF UsableTokens

\* The longest request that is accepted can be planned: in one step, split over
\* several, or else the blocks are too few for it.
THEOREM PromptFitsCorrect == Spec => []PromptFits
<1>1. ASSUME StartInv, Serving
      PROVE  /\ sched.max_token_len = rt.max_seq_len
             /\ rt.max_chunked_kv_tokens >= rt.max_seq_len
             /\ \/ sched.split_fuse_token_num > 0
                     /\ rt.enable_blocked_multi_token_forwarding_kv
                \/ sched.max_step_token_num >= sched.max_token_len
                \/ (block.device_blocks - sched.launch_block_threshold)
                     * block.block_token_num < sched.max_token_len
  <2>1. ModelUpdated /\ BlocksCounted
    BY <1>1, WhenServing
  <2>2. /\ rt.max_step_token_num \in Nat /\ rt.max_seq_len \in Nat
        /\ UsableTokens \in Nat /\ sched.max_step_token_num \in Nat
        /\ block.device_blocks \in Nat /\ sched.launch_block_threshold \in Nat
        /\ block.block_token_num \in Nat
    BY <1>1, ServingTypes
  <2>3. sched.split_fuse_token_num \in Nat
    BY <1>1 DEF StartInv, Types, SchedTypes, SchedulerConfigs
  <2>4. /\ sched.max_token_len = rt.max_seq_len
        /\ rt.max_chunked_kv_tokens >= rt.max_seq_len
        /\ \/ sched.split_fuse_token_num = 0
           \/ ~rt.enable_blocked_multi_token_forwarding_kv
           => rt.max_step_token_num >= rt.max_seq_len
    BY <2>1 DEF ModelUpdated
  <2>5. ASSUME sched.max_step_token_num < sched.max_token_len,
               rt.max_step_token_num >= rt.max_seq_len
        PROVE  (block.device_blocks - sched.launch_block_threshold)
                 * block.block_token_num < sched.max_token_len
    <3>1. sched.max_step_token_num = UsableTokens
      BY <2>1, <2>2, <2>4, <2>5 DEF BlocksCounted, Smaller
    <3> DEFINE own == (block.device_blocks - sched.launch_block_threshold)
                        * block.block_token_num
    <3>2. own <= UsableTokens
      BY <1>1, UsableOfFewer
    <3>3. own \in Int
      BY <2>2
    <3> HIDE DEF own
    <3> QED BY <2>2, <2>4, <2>5, <3>1, <3>2, <3>3 DEF own
  <2> QED BY <2>2, <2>3, <2>4, <2>5
<1>2. StartInv => PromptFits
  BY <1>1 DEF PromptFits
<1> QED BY <1>2, StartCorrect, PTL

\* Two roundings of the same ratio differ by less than one of n.
LEMMA RatioSplit ==
  ASSUME NEW r \in Nat, NEW n \in Nat, NEW s \in Nat
  PROVE  Tenths(r, n) * s <= n * Tenths(r, s) + n
<1> DEFINE a == (r * n) \div 10
           b == (r * s) \div 10
<1>1. r * n \in Nat /\ r * s \in Nat
  BY TimesNat
<1>2. a \in Nat /\ 10 * a <= r * n
  BY <1>1
<1>3. b \in Nat /\ r * s <= 10 * b + 9
  BY <1>1
<1> HIDE DEF a, b
<1>4. a * s \in Nat /\ n * b \in Nat
  BY <1>2, <1>3, TimesNat
<1>5. (10 * a) * s <= (r * n) * s
  BY <1>1, <1>2, TimesMono
<1>6. (r * s) * n <= (10 * b + 9) * n
  BY <1>1, <1>3, TimesMono
<1>7. /\ (10 * a) * s = 10 * (a * s)
      /\ (r * n) * s = (r * s) * n
      /\ (10 * b + 9) * n = 10 * (n * b) + 9 * n
  BY <1>2, <1>3, Z3
<1>8. a * s <= n * b + n
  BY <1>4, <1>5, <1>6, <1>7
<1> QED BY <1>8 DEF a, b, Tenths

\* The blocks that CalculateBlockNumber counts, and a pipeline may lower, fit
\* the memory that was measured beside the sliding-window pool; and on a node
\* of its own they hold every step that is planned.
THEOREM BlocksFitMemoryCorrect == Spec => []BlocksFitMemory
<1>1. ASSUME StartInv, Serving, dep.world_size = 1
      PROVE  /\ block.device_blocks > sched.launch_block_threshold
             /\ sched.max_step_token_num
                  <= (block.device_blocks - sched.launch_block_threshold)
                       * block.block_token_num
  <2>1. /\ block.device_blocks = DeviceBlocksNum
        /\ sched.max_step_token_num = Smaller(rt.max_step_token_num, UsableTokens)
        /\ MemoryValid
    BY <1>1, WhenServing DEF BlocksCounted
  <2>2. rt.max_step_token_num \in Nat /\ UsableTokens \in Nat
    BY <1>1, ServingTypes
  <2>3. sched.max_step_token_num <= UsableTokens
    BY <2>1, <2>2 DEF Smaller
  <2> QED BY <2>1, <2>3 DEF UsableTokens, MemoryValid
<1>2. ASSUME StartInv, Serving
      PROVE  /\ block.device_blocks * block.block_size
                  + block.swa_blocks * block.swa_block_size
                  <= DeviceBlockMemory + block.device_blocks
             /\ block.swa_block_size > 0 =>
                  block.swa_blocks
                    = Tenths(sched.swa_block_num_ratio, block.device_blocks)
  <2> DEFINE n == block.device_blocks
             size == block.block_size
             swa == block.swa_block_size
             ratio == sched.swa_block_num_ratio
  <2>1. BlocksCounted /\ Types
    BY <1>2, WhenServing
  <2>2. block.block_size > 0
    BY <1>2, BlockSizeSet, StageAt, StageChain DEF Serving
  <2>3. /\ n \in Nat /\ size \in Nat /\ swa \in Nat /\ block.swa_blocks \in Nat
        /\ ratio \in Nat
    BY <2>1 DEF Types, BlockTypes, SchedTypes, SchedulerConfigs
  <2>4. /\ DeviceBlockMemory \in Nat /\ EffectiveBlockSize \in Nat \ {0}
        /\ DeviceBlockMemory \div EffectiveBlockSize \in Nat
        /\ DeviceBlocksNum \in Nat
        /\ DeviceBlocksNum <= DeviceBlockMemory \div EffectiveBlockSize
    BY <2>1, <2>2, BlockNumTypes
  <2>5. swa > 0 => block.swa_blocks = Tenths(ratio, n)
    BY <2>1 DEF BlocksCounted
  <2>6. n <= DeviceBlockMemory \div EffectiveBlockSize
    BY <2>1, <2>3, <2>4 DEF BlocksCounted
  <2>7. n * EffectiveBlockSize <= DeviceBlockMemory
    <3>1. n * EffectiveBlockSize
            <= (DeviceBlockMemory \div EffectiveBlockSize) * EffectiveBlockSize
      BY <2>3, <2>4, <2>6, TimesMono
    <3>2. (DeviceBlockMemory \div EffectiveBlockSize) * EffectiveBlockSize
            <= DeviceBlockMemory
      BY <2>4, DivLe
    <3>3. /\ n * EffectiveBlockSize \in Nat
          /\ (DeviceBlockMemory \div EffectiveBlockSize) * EffectiveBlockSize
               \in Nat
      BY <2>3, <2>4, TimesNat
    <3> QED BY <2>4, <3>1, <3>2, <3>3
  <2> DEFINE share == Tenths(ratio, swa)
  <2>8. share \in Nat
    BY <2>3, TimesNat DEF Tenths
  <2>9. n * EffectiveBlockSize = n * size + n * share
    <3>1. EffectiveBlockSize = size + share
      BY DEF EffectiveBlockSize
    <3> HIDE DEF n, size, share
    <3>2. n * (size + share) = n * size + n * share
      BY <2>3, <2>8, Z3
    <3> QED BY <3>1, <3>2
  <2>10. block.swa_blocks * swa <= n * share + n
    <3>1. CASE swa > 0
      BY <2>3, <2>5, <3>1, RatioSplit
    <3>2. CASE swa = 0
      <4>1. block.swa_blocks * swa = 0
        BY <2>3, <3>2
      <4>2. n * share \in Nat
        BY <2>3, <2>8, TimesNat
      <4> QED BY <2>3, <4>1, <4>2
    <3> QED BY <2>3, <3>1, <3>2
  <2>11. /\ n * size \in Nat /\ n * share \in Nat
         /\ block.swa_blocks * swa \in Nat
    BY <2>3, <2>8, TimesNat
  <2>12. n * size + block.swa_blocks * swa <= DeviceBlockMemory + n
    <3> DEFINE main == n * size
               pairs == n * share
               pool == block.swa_blocks * swa
    <3>1. /\ main \in Nat /\ pairs \in Nat /\ pool \in Nat
          /\ pool <= pairs + n /\ main + pairs <= DeviceBlockMemory
      BY <2>7, <2>9, <2>10, <2>11
    <3> HIDE DEF main, pairs, pool, n
    <3>2. main + pool <= DeviceBlockMemory + n
      BY <2>3, <2>4, <3>1
    <3> QED BY <3>2 DEF main, pool
  <2> QED BY <2>5, <2>12
<1>3. StartInv => BlocksFitMemory
  BY <1>1, <1>2 DEF BlocksFitMemory, StepFitsBlocks, PoolsFitMemory
<1> QED BY <1>3, StartCorrect, PTL

\* The widths of a token's heads are numbers.
LEMMA HeadWidthTypes ==
  ASSUME HeadNumPerTp \in Nat, NEW size \in Nat
  PROVE  MlaWidth(size) \in Nat /\ DsaWidth(size) \in Nat
<1>1. HeadNumPerTp * size \in Nat
  BY TimesNat
<1>2. MlaWidth(size) \in Nat
  BY <1>1 DEF MlaWidth
<1> QED BY <1>2 DEF DsaWidth

\* The widths of a token's data on one device.
LEMMA WidthTypes ==
  ASSUME StartInv, Serving
  PROVE  /\ HeadNumPerTp \in Nat /\ InterSizePerTp \in Nat
         /\ AllToAllWidth \in Nat /\ LowLatencyTokens \in Nat
         /\ LogitsWidth \in Nat /\ LogitsWidth >= dep.vocab_size
         /\ HiddenWidth \in Nat \ {0}
         /\ MaxDim \in Nat /\ MaxDim >= HiddenWidth
         /\ MaxLogitsTokens \in Nat
<1>1. /\ dep.head_num \in Nat /\ dep.inter_size \in Nat
      /\ dep.shared_expert_inter_size \in Nat /\ dep.hidden_units \in Nat
      /\ dep.vocab_size \in Nat /\ dep.mla_head_size \in Nat
      /\ dep.kv_lora_rank \in Nat /\ dep.qk_rope_head_dim \in Nat
      /\ dep.num_key_value_heads \in Nat /\ dep.size_per_head \in Nat
  BY DEF StartInv, Types, Deployment
<1>2. /\ rt.tensor_parallel_size \in Nat \ {0}
      /\ rt.max_batch_size \in Nat /\ rt.max_step_token_num \in Nat
      /\ sched.max_decode_tokens_per_req \in Nat
  BY ServingTypes
<1>3. rt.attn_tensor_parallel_size \in Nat \ {0}
  <2>1. /\ rt.attn_data_parallel_size \in Nat \ {0}
        /\ rt.tensor_parallel_size >= rt.attn_data_parallel_size
        /\ rt.attn_tensor_parallel_size =
             rt.tensor_parallel_size \div rt.attn_data_parallel_size
    BY ServingTypes, WhenServing DEF ParallelParsed, ParallelSizesValid
  <2>2. rt.attn_data_parallel_size \div rt.attn_data_parallel_size = 1
    BY <2>1, Z3
  <2>3. 1 <= rt.attn_tensor_parallel_size
    BY <1>2, <2>1, <2>2, DivMono
  <2>4. rt.attn_tensor_parallel_size \in Nat
    BY <1>2, <2>1, DivNat
  <2> QED BY <2>3, <2>4
<1>4. rt.deepep_low_latency_max_tokens \in Nat
  BY DEF StartInv, Types, RtTypes, RuntimeConfigs
<1>5. HeadNumPerTp \in Nat
  BY <1>1, <1>3, DivNat DEF HeadNumPerTp
<1>6. InterSizePerTp \in Nat
  <2>1. /\ dep.inter_size \div rt.tensor_parallel_size \in Nat
        /\ dep.shared_expert_inter_size \div rt.tensor_parallel_size \in Nat
    BY <1>1, <1>2, DivNat
  <2> QED BY <1>1, <2>1 DEF InterSizePerTp, Larger
<1>7. AllToAllWidth \in Nat /\ LowLatencyTokens \in Nat
  BY <1>1, <1>2, <1>4, <1>6 DEF AllToAllWidth, LowLatencyTokens, Larger
<1>8. LogitsWidth \in Nat /\ LogitsWidth >= dep.vocab_size
  <2>1. VocabSizePad \in Nat /\ VocabSizePad >= dep.vocab_size
    BY <1>1, <1>2, RoundUpFacts DEF VocabSizePad
  <2>2. MlaWidth(AbsorbedHeadSize) \in Nat
    BY <1>1, <1>5, HeadWidthTypes DEF AbsorbedHeadSize
  <2> QED BY <1>1, <2>1, <2>2 DEF LogitsWidth, Larger
<1>9. HiddenWidth \in Nat \ {0}
  <2>1. dep.hidden_units \in Nat \ {0} /\ dep.hc_mult \in Nat \ {0}
    BY DEF StartInv, Types, Deployment
  <2>2. dep.hidden_units * dep.hc_mult >= dep.hidden_units
    BY <2>1, TimesGrows
  <2>3. dep.hidden_units * dep.hc_mult \in Nat
    BY <2>1, TimesNat
  <2> QED BY <2>1, <2>2, <2>3 DEF HiddenWidth
<1>10. MaxDim \in Nat /\ MaxDim >= HiddenWidth
  <2> DEFINE kv == DivRoundUp(dep.num_key_value_heads,
                              rt.attn_tensor_parallel_size)
             qkv == IF dep.use_mla THEN HeadNumPerTp ELSE HeadNumPerTp + 2 * kv
             attention == qkv * dep.size_per_head
             inter == 2 * InterSizePerTp
             heads == Larger(MlaWidth(dep.mla_head_size),
                             DsaWidth(AbsorbedHeadSize))
  <2>1. kv \in Nat
    <3>1. dep.num_key_value_heads + rt.attn_tensor_parallel_size - 1 \in Nat
      BY <1>1, <1>3
    <3> QED BY <1>3, <3>1, DivNat DEF DivRoundUp
  <2>2. qkv \in Nat
    <3> HIDE DEF kv
    <3> QED BY <1>5, <2>1
  <2>3. attention \in Nat
    <3> HIDE DEF qkv
    <3> QED BY <1>1, <2>2, TimesNat
  <2>4. inter \in Nat /\ heads \in Nat
    <3>1. /\ MlaWidth(dep.mla_head_size) \in Nat
          /\ DsaWidth(AbsorbedHeadSize) \in Nat
      BY <1>1, <1>5, HeadWidthTypes DEF AbsorbedHeadSize
    <3> QED BY <1>6, <3>1 DEF Larger
  <2>5. MaxDim = Larger(Larger(attention, HiddenWidth), Larger(inter, heads))
    BY DEF MaxDim
  <2> HIDE DEF attention, inter, heads
  <2> QED BY <1>9, <2>3, <2>4, <2>5 DEF Larger
<1>11. MaxLogitsTokens \in Nat
  BY <1>2, TimesNat DEF MaxLogitsTokens
<1> QED BY <1>5, <1>6, <1>7, <1>8, <1>9, <1>10, <1>11

\* The shared buffer's unit covers an expert exchange, once spread over tokens.
LEMMA ExchangeFits ==
  ASSUME StartInv, Serving, NEW t \in Nat \ {0}
  PROVE  /\ SharedBufferUnitSize(t) \in Nat
         /\ rt.moe_all_to_all_mode = "DEEPEP_LOW_LATENCY" =>
              t * SharedBufferUnitSize(t) >=
                dep.local_num_experts * rt.expert_world_size
                  * LowLatencyTokens * AllToAllWidth
         /\ rt.moe_all_to_all_mode = "DEEPEP_NORMAL" =>
              t * SharedBufferUnitSize(t) >=
                t * rt.expert_world_size * AllToAllWidth
<1> DEFINE moved == dep.local_num_experts * rt.expert_world_size
                      * LowLatencyTokens * AllToAllWidth
           unit == SharedBufferUnitSize(t)
           exchange == AllToAllHiddenSize(t)
<1>1. /\ HeadNumPerTp \in Nat /\ InterSizePerTp \in Nat
      /\ AllToAllWidth \in Nat /\ LowLatencyTokens \in Nat
      /\ HiddenWidth \in Nat
  BY WidthTypes
<1>2. /\ dep.hidden_units \in Nat /\ dep.mla_head_size \in Nat
      /\ dep.kv_lora_rank \in Nat
      /\ dep.local_num_experts \in Nat
  BY DEF StartInv, Types, Deployment
<1>3. /\ rt.expert_world_size \in Nat /\ sched.mtp_step_num \in Nat
      /\ rt.moe_all_to_all_mode \in AllToAllModes
  BY ServingTypes DEF StartInv, Types, RtTypes, RuntimeConfigs
<1>4. moved \in Nat
  <2>1. dep.local_num_experts * rt.expert_world_size \in Nat
    BY <1>2, <1>3, TimesNat
  <2>2. dep.local_num_experts * rt.expert_world_size * LowLatencyTokens \in Nat
    BY <1>1, <2>1, TimesNat
  <2> QED BY <1>1, <2>2, TimesNat
<1>5. rt.expert_world_size * AllToAllWidth \in Nat
  BY <1>1, <1>3, TimesNat
<1> HIDE DEF moved
<1>6. DivRoundUp(moved, t) \in Nat /\ DivRoundUp(moved, t) * t >= moved
  <2>1. DivRoundUp(moved, t) \in Nat
    <3>1. moved + t - 1 \in Nat
      BY <1>4
    <3> QED BY <3>1, DivNat DEF DivRoundUp
  <2>2. DivRoundUp(moved, t) * t >= moved
    BY <1>4, RoundUpFacts DEF RoundUp
  <2> QED BY <2>1, <2>2
<1>7. exchange \in Nat
  BY <1>5, <1>6 DEF AllToAllHiddenSize, moved
<1> HIDE DEF exchange
<1>8. unit \in Nat /\ unit >= exchange
  <2> DEFINE mtp == IF sched.mtp_step_num > 0 THEN 2 * dep.hidden_units ELSE 0
             heads == Larger(MlaWidth(dep.mla_head_size),
                             DsaWidth(dep.kv_lora_rank))
  <2>1. mtp \in Nat /\ heads \in Nat
    <3>1. /\ MlaWidth(dep.mla_head_size) \in Nat
          /\ DsaWidth(dep.kv_lora_rank) \in Nat
      BY <1>1, <1>2, HeadWidthTypes
    <3> QED BY <1>2, <1>3, <3>1 DEF Larger
  <2>2. unit = Larger(Larger(Larger(InterSizePerTp, HiddenWidth), mtp),
                      Larger(exchange, heads))
    BY DEF SharedBufferUnitSize, exchange
  <2> HIDE DEF mtp, heads, unit
  <2> QED BY <1>1, <1>2, <1>7, <2>1, <2>2 DEF Larger
<1> HIDE DEF unit
<1>9. t * unit >= t * exchange
  <2>1. exchange * t <= unit * t
    BY <1>7, <1>8, TimesMono
  <2>2. exchange * t = t * exchange /\ unit * t = t * unit
    BY <1>7, <1>8, TimesCommute
  <2> QED BY <1>7, <1>8, <2>1, <2>2, TimesNat
<1>10. t * unit \in Nat /\ t * exchange \in Nat
  BY <1>7, <1>8, TimesNat
<1>11. rt.moe_all_to_all_mode = "DEEPEP_LOW_LATENCY" => t * unit >= moved
  <2>1. rt.moe_all_to_all_mode = "DEEPEP_LOW_LATENCY" =>
          exchange = DivRoundUp(moved, t)
    BY DEF exchange, AllToAllHiddenSize, moved
  <2>2. DivRoundUp(moved, t) * t = t * DivRoundUp(moved, t)
    BY <1>6, TimesCommute
  <2> QED BY <1>4, <1>6, <1>9, <1>10, <2>1, <2>2
<1>12. rt.moe_all_to_all_mode = "DEEPEP_NORMAL" =>
         t * unit >= t * rt.expert_world_size * AllToAllWidth
  <2>1. rt.moe_all_to_all_mode = "DEEPEP_NORMAL" =>
          exchange = rt.expert_world_size * AllToAllWidth
    BY DEF exchange, AllToAllHiddenSize
  <2>2. t * (rt.expert_world_size * AllToAllWidth)
          = t * rt.expert_world_size * AllToAllWidth
    BY <1>1, <1>3, Z3
  <2> QED BY <1>9, <2>1, <2>2
<1> QED BY <1>8, <1>11, <1>12 DEF unit, moved

\* Who forwards a prompt has room for the scheduler's largest step.
LEMMA StepsFit ==
  ASSUME StartInv
  PROVE  PrefillFits
<1> SUFFICES ASSUME Serving
             PROVE  IF conn.group_role = "DECODE" /\ ~conn.is_pd_v2
                    THEN forwarding.tokens
                           >= rt.max_batch_size
                                * (1 + rt.mtp_step_num + 2 * sched.ptp_step_num)
                    ELSE forwarding.tokens >= sched.max_step_token_num
  BY DEF PrefillFits
<1>1. /\ ConnectorParsed /\ ModelUpdated /\ BuffersSized /\ BlocksCounted
      /\ BatchParsed
  BY WhenServing
<1>2. /\ rt.max_batch_size \in Nat \ {0} /\ rt.max_step_token_num \in Nat
      /\ rt.attn_data_parallel_size \in Nat \ {0}
      /\ sched.mtp_step_num \in Nat /\ sched.ptp_step_num \in Nat
      /\ sched.max_decode_tokens_per_req \in Nat \ {0}
      /\ UsableTokens \in Nat
  BY ServingTypes
<1>3. rt.is_decode_only <=> conn.group_role = "DECODE" /\ ~conn.is_pd_v2
  BY <1>1 DEF ConnectorParsed, ModelUpdated, IsDecodeOnly
<1>4. forwarding.tokens = SelectEffectiveStepTokenNum
  BY <1>1 DEF BuffersSized
<1>5. CASE rt.is_decode_only
  <2> DEFINE batch == rt.max_batch_size * sched.max_decode_tokens_per_req
  <2>1. Larger(sched.max_decode_tokens_per_req, 1)
          = sched.max_decode_tokens_per_req
    BY <1>2 DEF Larger
  <2>2. forwarding.tokens = batch * rt.attn_data_parallel_size
    BY <1>4, <1>5, <2>1
    DEF SelectEffectiveStepTokenNum, ComputeDecodeOnlyStepTokenNum
  <2>3. batch \in Nat
    BY <1>2, TimesNat
  <2>4. sched.max_decode_tokens_per_req
          = 1 + rt.mtp_step_num + 2 * sched.ptp_step_num
    <3>1. sched.max_decode_tokens_per_req
            = sched.mtp_step_num + 2 * sched.ptp_step_num + 1
      BY <1>1 DEF BatchParsed
    <3>2. rt.mtp_step_num = sched.mtp_step_num
      BY <1>1 DEF ModelUpdated
    <3> QED BY <1>2, <3>1, <3>2
  <2>5. batch * rt.attn_data_parallel_size >= batch
    BY <1>2, <2>3, TimesGrows
  <2> QED BY <1>3, <1>5, <2>2, <2>4, <2>5
<1>6. CASE ~rt.is_decode_only
  <2>1. forwarding.tokens = rt.max_step_token_num
    BY <1>4, <1>6 DEF SelectEffectiveStepTokenNum
  <2>2. sched.max_step_token_num <= rt.max_step_token_num
    BY <1>1, <1>2 DEF BlocksCounted, Smaller
  <2> QED BY <1>2, <1>3, <1>6, <2>1, <2>2, ServingTypes
<1> QED BY <1>5, <1>6

\* Each use of a buffer fits it in full.
LEMMA UsesFit ==
  ASSUME StartInv
  PROVE  BuffersFit
<1> DEFINE tokens == forwarding.tokens
           unit == SharedBufferUnitSize(tokens)
<1> SUFFICES
      ASSUME Serving
      PROVE  /\ forwarding.hidden_buffer >= forwarding.logits * dep.vocab_size
             /\ forwarding.hidden_buffer >= tokens * HiddenWidth
             /\ rt.moe_all_to_all_mode = "DEEPEP_LOW_LATENCY" =>
                  forwarding.shared_buffer >= dep.local_num_experts
                    * rt.expert_world_size * LowLatencyTokens * AllToAllWidth
             /\ rt.moe_all_to_all_mode = "DEEPEP_NORMAL" =>
                  forwarding.shared_buffer
                    >= tokens * rt.expert_world_size * AllToAllWidth
             /\ rt.moe_all_to_all_mode # "DISABLED" =>
                  forwarding.hidden_buffer >= forwarding.shared_buffer
  BY DEF BuffersFit
<1>1. tokens \in Nat \ {0}
  BY ServingTypes
<1>2. /\ LogitsWidth \in Nat /\ LogitsWidth >= dep.vocab_size
      /\ MaxDim \in Nat /\ MaxDim >= HiddenWidth /\ MaxLogitsTokens \in Nat
      /\ HiddenWidth \in Nat
  BY WidthTypes
<1>3. dep.vocab_size \in Nat
  BY DEF StartInv, Types, Deployment
<1>4. /\ forwarding.logits = MaxLogitsTokens
      /\ forwarding.hidden_buffer = HiddenBufferSize(tokens)
      /\ forwarding.shared_buffer = tokens * unit
  BY WhenServing DEF BuffersSized
<1>5. unit \in Nat
  BY <1>1, ExchangeFits
<1> DEFINE logits == MaxLogitsTokens * LogitsWidth
           hidden == tokens * MaxDim
           shared == tokens * unit
           exchange == IF rt.moe_all_to_all_mode = "DISABLED" THEN 0 ELSE shared
<1>6. HiddenBufferSize(tokens) = Larger(Larger(logits, hidden), exchange)
  BY DEF HiddenBufferSize
<1>7. logits \in Nat /\ hidden \in Nat /\ shared \in Nat
  BY <1>1, <1>2, <1>5, TimesNat
<1>8. /\ HiddenBufferSize(tokens) \in Nat /\ HiddenBufferSize(tokens) >= logits
      /\ HiddenBufferSize(tokens) >= hidden
      /\ rt.moe_all_to_all_mode # "DISABLED" =>
           HiddenBufferSize(tokens) >= shared
  <2> HIDE DEF logits, hidden, shared, tokens
  <2> QED BY <1>6, <1>7 DEF Larger
<1>9. logits >= forwarding.logits * dep.vocab_size
  <2>1. dep.vocab_size * MaxLogitsTokens <= LogitsWidth * MaxLogitsTokens
    BY <1>2, <1>3, TimesMono
  <2>2. /\ dep.vocab_size * MaxLogitsTokens = MaxLogitsTokens * dep.vocab_size
        /\ LogitsWidth * MaxLogitsTokens = MaxLogitsTokens * LogitsWidth
        /\ MaxLogitsTokens * dep.vocab_size \in Nat
    BY <1>2, <1>3, TimesCommute, TimesNat
  <2> QED BY <1>4, <1>7, <2>1, <2>2
<1>10. hidden >= tokens * HiddenWidth
  <2>1. HiddenWidth * tokens <= MaxDim * tokens
    BY <1>1, <1>2, <1>3, TimesMono
  <2>2. /\ HiddenWidth * tokens = tokens * HiddenWidth
        /\ MaxDim * tokens = tokens * MaxDim
        /\ tokens * HiddenWidth \in Nat
    BY <1>1, <1>2, <1>3, TimesCommute, TimesNat
  <2> QED BY <1>7, <2>1, <2>2
<1>11. /\ rt.moe_all_to_all_mode = "DEEPEP_LOW_LATENCY" =>
            shared >= dep.local_num_experts
              * rt.expert_world_size * LowLatencyTokens * AllToAllWidth
       /\ rt.moe_all_to_all_mode = "DEEPEP_NORMAL" =>
            shared >= tokens * rt.expert_world_size * AllToAllWidth
  BY <1>1, ExchangeFits
<1>12. /\ forwarding.logits * dep.vocab_size \in Nat
       /\ tokens * HiddenWidth \in Nat
  BY <1>1, <1>2, <1>3, <1>4, TimesNat
<1>13. forwarding.hidden_buffer >= forwarding.logits * dep.vocab_size
  BY <1>4, <1>7, <1>8, <1>9, <1>12
<1>14. forwarding.hidden_buffer >= tokens * HiddenWidth
  BY <1>4, <1>7, <1>8, <1>10, <1>12
<1> QED BY <1>4, <1>8, <1>11, <1>13, <1>14

\* The tables, sized before the blocks are counted, cover those that are.
LEMMA TablesFit ==
  ASSUME StartInv
  PROVE  TablesCoverBlocks
<1> DEFINE bound == DivRoundUp(rt.max_seq_len, rt.block_token_num)
                      * rt.max_batch_size
           requests == DivRoundUp(rt.max_seq_len, rt.block_token_num)
           reserved == Percent(block.reserved_device_memory, dep.device_total)
           free == dep.device_free + dep.allocated_later
<1> SUFFICES ASSUME Serving, dep.block_device_memory < 0
             PROVE  \/ forwarding.table_blocks >= block.device_blocks
                    \/ forwarding.table_blocks >= rt.max_batch_size * requests
  BY DEF TablesCoverBlocks
<1>1. Types /\ BuffersSized /\ BlocksCounted /\ LayoutSet /\ BlockParsed
  BY WhenServing
<1>2. /\ dep.device_free \in Nat /\ dep.allocated_later \in Nat
      /\ dep.device_total \in Nat /\ dep.block_device_memory \in Int
      /\ dep.block_size \in Nat \ {0}
  BY <1>1 DEF Types, Deployment
<1>3. /\ block.reserved_device_memory \in Nat /\ block.device_blocks \in Nat
      /\ block.block_size = dep.block_size /\ rt.block_size = dep.block_size
  BY <1>1 DEF Types, BlockTypes, LayoutSet
<1>4. rt.max_batch_size \in Nat /\ rt.max_seq_len \in Nat
  BY ServingTypes
<1>5. requests \in Nat
  <2>1. rt.block_token_num \in Nat \ {0}
    BY <1>1, DepTypes DEF Types, BlockParsed
  <2>2. rt.max_seq_len + rt.block_token_num - 1 \in Nat
    BY <1>4, <2>1
  <2> QED BY <2>1, <2>2, DivNat DEF DivRoundUp
<1> HIDE DEF requests
<1>6. bound = rt.max_batch_size * requests /\ bound \in Nat
  <2>1. bound = requests * rt.max_batch_size
    BY DEF requests
  <2>2. requests * rt.max_batch_size = rt.max_batch_size * requests
    BY <1>4, <1>5, TimesCommute
  <2> QED BY <1>4, <1>5, <2>1, <2>2, TimesNat
<1> HIDE DEF bound
<1>7. reserved \in Nat
  <2>1. block.reserved_device_memory * dep.device_total \in Nat
    BY <1>2, <1>3, TimesNat
  <2> QED BY <2>1 DEF Percent
<1> HIDE DEF reserved
<1>8. forwarding.table_blocks =
        IF rt.enable_prefix_caching \/ free < reserved THEN bound
        ELSE Smaller(bound, (free - reserved) \div dep.block_size)
  BY <1>1, <1>3 DEF BuffersSized, MaxTableBlockNum, bound, reserved
<1>9. CASE forwarding.table_blocks = bound
  BY <1>6, <1>9
<1>10. CASE /\ ~(free < reserved)
            /\ forwarding.table_blocks = (free - reserved) \div dep.block_size
  <2>1. free - reserved \in Nat
    BY <1>2, <1>7, <1>10
  <2>2. /\ DeviceBlockMemory \in Nat /\ EffectiveBlockSize \in Nat \ {0}
        /\ EffectiveBlockSize >= dep.block_size
        /\ DeviceBlockMemory \div EffectiveBlockSize \in Nat
        /\ DeviceBlocksNum \in Nat
        /\ DeviceBlocksNum <= DeviceBlockMemory \div EffectiveBlockSize
    BY <1>1, <1>2, <1>3, BlockNumTypes
  <2>3. DeviceBlockMemory <= free - reserved
    <3> DEFINE kept == RoundUp(reserved, 8)
               left == Larger(dep.device_free - kept, 0)
    <3>1. kept \in Nat /\ kept >= reserved
      BY <1>7, RoundUpFacts
    <3> HIDE DEF kept
    <3>2. left \in Nat /\ left <= free - reserved
      BY <1>2, <1>7, <2>1, <3>1 DEF Larger
    <3>3. DeviceBlockMemory = RoundDown(left, 8)
      BY <1>2 DEF DeviceBlockMemory, reserved, kept
    <3> HIDE DEF left
    <3>4. RoundDown(left, 8) <= left
      BY <3>2 DEF RoundDown
    <3> QED BY <2>1, <2>2, <3>2, <3>3, <3>4
  <2>4. block.device_blocks <= (free - reserved) \div dep.block_size
    <3>1. DeviceBlockMemory \div EffectiveBlockSize
            <= DeviceBlockMemory \div dep.block_size
      BY <1>2, <2>2, DivLarger
    <3>2. DeviceBlockMemory \div dep.block_size
            <= (free - reserved) \div dep.block_size
      BY <1>2, <2>1, <2>2, <2>3, DivMono
    <3>3. block.device_blocks <= DeviceBlocksNum
      BY <1>1 DEF BlocksCounted
    <3>4. /\ DeviceBlockMemory \div dep.block_size \in Nat
          /\ (free - reserved) \div dep.block_size \in Nat
      BY <1>2, <2>1, <2>2, DivNat
    <3> QED BY <1>3, <2>2, <3>1, <3>2, <3>3, <3>4
  <2>5. (free - reserved) \div dep.block_size \in Nat
    BY <1>2, <2>1, DivNat
  <2> QED BY <1>3, <1>10, <2>4, <2>5
<1> QED BY <1>8, <1>9, <1>10 DEF Smaller

\* What is allocated before the node serves holds whatever is planned later:
\* the buffers a step, each use of a buffer in full, and the tables all blocks.
THEOREM BuffersSufficeCorrect == Spec => []BuffersSuffice
<1>1. StartInv => BuffersSuffice
  BY StepsFit, UsesFit, TablesFit DEF BuffersSuffice
<1> QED BY <1>1, StartCorrect, PTL
=============================================================================

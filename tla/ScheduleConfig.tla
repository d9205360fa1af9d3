----------------------------- MODULE ScheduleConfig -----------------------------
(***************************************************************************)
(* Start-up of one node: ScheduleConfigParser turns the yaml settings, the *)
(* environment and the model into the configurations that the scheduler,   *)
(* the cache manager, the executor and the connectors read, in stages that *)
(* run long before and after one another; FastPathController decides from  *)
(* them whether build-ahead is on; ForwardingContext sizes its buffers and *)
(* input slots; CalculateBlockNumber divides what memory is left into      *)
(* blocks, and a pipeline then agrees on one block number.                 *)
(*                                                                         *)
(* Each stage is an action, in the order of the calls. A setting is copied *)
(* into several structures at different stages, and normalised in between: *)
(* the invariants relate the copies that different threads act on.         *)
(* A check that throws ends in the stage "rejected".                       *)
(***************************************************************************)
EXTENDS Integers, FiniteSets

CONSTANT Deployments  \* the settings, environments and models to start with

Larger(a, b) == IF a >= b THEN a ELSE b
Smaller(a, b) == IF a <= b THEN a ELSE b
DivRoundUp(a, b) == (a + b - 1) \div b
RoundUp(a, b) == DivRoundUp(a, b) * b
RoundDown(a, b) == (a \div b) * b
Percent(p, n) == (p * n) \div 100
Tenths(t, n) == (t * n) \div 10

SchedulerTypes == {"DEFAULT", "EVENT_DRIVEN"}
GroupRoles == {"NONE", "PREFILL", "DECODE", "BOTH"}
AllToAllModes == {"DISABLED", "DEEPEP_NORMAL", "DEEPEP_LOW_LATENCY"}
KvCacheDtypes == {"auto", "fp8_e4m3", "fp8_e5m2", "fp8_ds_mla"}

\* What a deployment says. scheduler_type, speculative_method, the mode, the
\* role and the dtype may be values that the parser does not know ("other").
\* Memory ratios are in percent, swa_block_num_ratio in tenths. expert_master:
\* the environment names the experts' master host and port. mla_head_size: the
\* larger of qk_nope_head_dim + qk_rope_head_dim and v_head_dim.
Deployment ==
  [device_num : Nat, world_size : Nat \ {0}, peer_block_num : Nat,
   device_total : Nat, device_free : Nat, allocated_later : Nat,
   host_free : Nat,
   max_device_blocks : Nat, o_proj_out_of_dp : BOOLEAN,
   decode_node_benchmark : BOOLEAN,
   use_mla : BOOLEAN, use_dsa : BOOLEAN, use_dsv4_attn : BOOLEAN,
   is_visual : BOOLEAN, use_qk_norm : BOOLEAN, is_quant : BOOLEAN,
   unit_kv_scales : BOOLEAN, ptp_step_num : Nat,
   num_layer : Nat \ {0}, num_nextn_predict_layers : Nat,
   num_key_value_heads : Nat \ {0}, max_training_seq_len : Nat \ {0},
   head_num : Nat \ {0}, size_per_head : Nat \ {0},
   hidden_units : Nat \ {0}, inter_size : Nat \ {0},
   shared_expert_inter_size : Nat, vocab_size : Nat \ {0},
   local_num_experts : Nat \ {0}, hc_mult : Nat \ {0},
   mla_head_size : Nat \ {0}, kv_lora_rank : Nat \ {0},
   qk_rope_head_dim : Nat,
   block_size : Nat \ {0}, swa_block_size : Nat,
   tensor_para_size : Nat, attn_data_para_size : Nat,
   expert_para_size : Nat \ {0}, expert_world_size : Nat \ {0},
   expert_master : BOOLEAN,
   enable_full_shared_expert : BOOLEAN,
   moe_all_to_all_mode :
     {"auto", "DEEPEP_NORMAL", "DEEPEP_LOW_LATENCY", "other"},
   deepep_low_latency_max_tokens : Nat,
   scheduler_type : SchedulerTypes \cup {"other"},
   max_token_len : Nat, max_step_tokens : Nat \ {0},
   max_chunked_kv_tokens : Nat, max_batch_size : Nat \ {0},
   max_pp_batch_num : Nat, launch_block_threshold : Nat,
   split_fuse_token_num : Nat, enable_speculative_decoding : BOOLEAN,
   speculative_method : {"", "trie", "asr_custom", "other"},
   mtp_step_num : Nat, enable_xgrammar : BOOLEAN, enable_async : BOOLEAN,
   enable_executor_build_ahead : BOOLEAN,
   block_token_num : Nat \ {0}, reserved_device_memory : Nat,
   block_device_memory : Int, block_host_memory_factor : Int,
   swa_block_num_ratio : Nat,
   min_flexible_cache_num : Nat, enable_auto_prefix_cache : BOOLEAN,
   enable_blocked_multi_token_forwarding_kv : BOOLEAN,
   use_flashinfer_for_decode : BOOLEAN,
   kv_cache_dtype : KvCacheDtypes \cup {"other"},
   group_role : GroupRoles \cup {"other"}, backend : {"", "v2"},
   router_addr : BOOLEAN, transfer_layer_chunk_size : Int,
   service_endpoint : BOOLEAN]

ASSUME ScheduleConfigAssumption == Deployments \subseteq Deployment

VARIABLES
  dep,         \* the deployment being started
  stage,       \* the call that comes next
  sched,       \* batch_scheduler_config_
  cache,       \* cache_manager_config_
  block,       \* block_manager_config_
  rt,          \* runtime_config_ with its parallel and attention parts
  conn, pd_v2, \* connector_config_ and its twin pd_v2_runtime_config_
  gcc,         \* global_cache_connector_config_
  pipeline,    \* pipeline_config_
  expert,      \* expert_parallel_config_
  fast_path,   \* FastPathController's enabled_at_startup_
  forwarding   \* ForwardingContext's buffers and model inputs

vars == <<dep, stage, sched, cache, block, rt, conn, pd_v2, gcc, pipeline,
          expert, fast_path, forwarding>>

Stages == <<"parallel", "scheduler", "block_manager", "backend", "connector",
            "global_cache", "members", "model", "fast_path", "layout",
            "experts", "forwarding", "memory", "sync", "serving">>

Go(a, b) == stage = a /\ stage' = b
-----------------------------------------------------------------------------
(* Reset, and what the structures hold before anything is parsed *)

\* The layers that the pipeline's master gives to this node, which is not the
\* last one; a node of its own has none assigned.
AssignedLayers ==
  [lower |-> IF dep.world_size > 1 THEN 0 ELSE -1,
   upper |-> IF dep.world_size > 1 THEN dep.num_layer - 1 ELSE -1,
   lower_nextn |-> -1, upper_nextn |-> -1, device_block_num |-> 0,
   host_block_num |-> 0]

\* What Reset leaves in the structures.
DefaultBatchSchedulerConfig ==
  [scheduler_type |-> "DEFAULT", max_token_len |-> 2048,
   max_step_token_num |-> 4096, max_chunked_kv_tokens |-> 0,
   max_batch_size |-> 8, max_pp_batch_num |-> 1,
   launch_block_threshold |-> 2, split_fuse_token_num |-> 0,
   max_decode_tokens_per_req |-> 1,
   enable_speculative_decoding |-> FALSE, speculative_method |-> "",
   mtp_step_num |-> 0, ptp_step_num |-> 0, enable_xgrammar |-> FALSE,
   enable_async |-> FALSE, enable_executor_build_ahead |-> FALSE,
   swa_block_num_ratio |-> 0]

DefaultCacheManagerConfig ==
  [block_token_num |-> 16, tensor_para_size |-> 2,
   min_flexible_cache_num |-> 0, enable_prefix_caching |-> FALSE]

DefaultBlockManagerConfig ==
  [block_token_num |-> 0, block_size |-> 0, swa_block_size |-> 0,
   reserved_device_memory |-> 5, device_blocks |-> 0, host_blocks |-> 0,
   swa_blocks |-> 0]

DefaultRuntimeConfig ==
  [tensor_parallel_size |-> 1, attn_data_parallel_size |-> 1,
   attn_tensor_parallel_size |-> 1, expert_parallel_size |-> 1,
   expert_world_size |-> 1, moe_tensor_para_size |-> 1,
   block_token_num |-> 0, block_size |-> 0, kv_cache_dtype |-> "auto",
   enable_blocked_multi_token_forwarding_kv |-> FALSE,
   moe_all_to_all_mode |-> "DISABLED",
   deepep_low_latency_max_tokens |-> 256,
   separate_prefill_decode |-> FALSE, is_decode_only |-> FALSE,
   enable_prefix_caching |-> FALSE, enable_flexible_caching |-> FALSE,
   max_pp_batch_num |-> 1, max_batch_size |-> 0, max_seq_len |-> 0,
   max_step_token_num |-> 0, max_chunked_kv_tokens |-> 0,
   mtp_step_num |-> 0, enable_async |-> FALSE,
   enable_executor_build_ahead |-> FALSE,
   enable_speculative_decoding |-> FALSE]

Init ==
  /\ dep \in Deployments
  /\ stage = "parallel"
  /\ sched = DefaultBatchSchedulerConfig
  /\ cache = DefaultCacheManagerConfig
  /\ block = DefaultBlockManagerConfig
  /\ rt = DefaultRuntimeConfig
  /\ conn = [group_role |-> "NONE", is_pd_v2 |-> FALSE, router_addr |-> FALSE]
  /\ pd_v2 = [group_role |-> "NONE", is_pd_v2 |-> FALSE]
  /\ gcc = [configured |-> FALSE, max_step_tokens |-> 0, block_token_num |-> 0]
  /\ pipeline = AssignedLayers
  /\ expert = [expert_world_size |-> 1, expert_para_size |-> 1,
       expert_tensor_para_size |-> 1, global_expert_para_size |-> 1]
  /\ fast_path = FALSE
  /\ forwarding = [tokens |-> 0, logits |-> 0, hidden_buffer |-> 0,
       shared_buffer |-> 0, mtp_hidden_buffer |-> 0, layers |-> 0,
       table_blocks |-> 0, slots |-> 1]

-----------------------------------------------------------------------------
(* ParseScheduleConfig *)

\* tensor_para_size 0 stands for all devices.
TensorParallelSize ==
  IF dep.tensor_para_size = 0 THEN dep.device_num ELSE dep.tensor_para_size
\* Mutant: the groups need not divide the devices.
ParallelSizesInRange ==
  /\ TensorParallelSize > 0
  /\ dep.attn_data_para_size > 0
  /\ TensorParallelSize >= dep.attn_data_para_size
  /\ dep.device_num >= TensorParallelSize

\* The size checks: they throw (the remainder is taken before the sizes are
\* known not to be zero; a zero ends the start either way).
ParallelSizesValid ==
  /\ TensorParallelSize > 0
  /\ dep.attn_data_para_size > 0
  /\ TensorParallelSize >= dep.attn_data_para_size
  /\ TensorParallelSize % dep.attn_data_para_size = 0
  /\ dep.device_num >= TensorParallelSize

ParseParallelSizes ==
  /\ Go("parallel", "scheduler")
  /\ ParallelSizesValid
  /\ rt' = [rt EXCEPT !.tensor_parallel_size = TensorParallelSize,
              !.attn_data_parallel_size = dep.attn_data_para_size,
              !.attn_tensor_parallel_size =
                  TensorParallelSize \div dep.attn_data_para_size,
              !.expert_parallel_size = dep.expert_para_size,
              !.expert_world_size = dep.expert_world_size]
  /\ UNCHANGED <<dep, sched, cache, block, conn, pd_v2, gcc, pipeline, expert,
                 fast_path, forwarding>>

\* An unknown method turns speculative decoding off, an empty one means trie.
SpeculativeMethod ==
  IF ~dep.enable_speculative_decoding \/ dep.speculative_method = "other"
  THEN "" ELSE IF dep.speculative_method = "" THEN "trie"
  ELSE dep.speculative_method
\* Mutant: the step number is kept for a model without such a layer.
MtpStepNumAsWritten == dep.mtp_step_num

\* Multi-token prediction needs a layer of the model; parallel token
\* prediction gives way to it and to speculative decoding.
MtpStepNum == IF dep.num_nextn_predict_layers = 0 THEN 0 ELSE dep.mtp_step_num
PtpStepNum ==
  IF MtpStepNum > 0 \/ SpeculativeMethod # "" THEN 0 ELSE dep.ptp_step_num

MaxDecodeTokensPerReq == MtpStepNum + 2 * PtpStepNum + 1

\* KLLM_CHECKs of this part: a batch at least, and the output projection
\* outside of data parallelism only without tensor parallel attention.
BatchSettingsValid ==
  /\ dep.max_pp_batch_num > 0
  /\ dep.o_proj_out_of_dp => rt.attn_tensor_parallel_size = 1

ParseBatchScheduler ==
  /\ Go("scheduler", "block_manager")
  /\ BatchSettingsValid
  /\ sched' = [scheduler_type |-> IF dep.scheduler_type = "other"
                                  THEN "DEFAULT" ELSE dep.scheduler_type,
               max_token_len |-> dep.max_token_len,
               max_step_token_num |-> dep.max_step_tokens,
               max_chunked_kv_tokens |-> dep.max_chunked_kv_tokens,
               max_batch_size |-> dep.max_batch_size,
               max_pp_batch_num |-> dep.max_pp_batch_num,
               launch_block_threshold |-> dep.launch_block_threshold,
               split_fuse_token_num |-> dep.split_fuse_token_num,
               max_decode_tokens_per_req |-> MaxDecodeTokensPerReq,
               enable_speculative_decoding |-> SpeculativeMethod # "",
               speculative_method |-> SpeculativeMethod,
               mtp_step_num |-> MtpStepNum,
               ptp_step_num |-> PtpStepNum,
               enable_xgrammar |-> dep.enable_xgrammar,
               enable_async |-> dep.enable_async,
               enable_executor_build_ahead |-> dep.enable_executor_build_ahead,
               swa_block_num_ratio |-> 0]
  /\ UNCHANGED <<dep, cache, block, rt, conn, pd_v2, gcc, pipeline, expert,
                 fast_path, forwarding>>

\* Flash MLA fixes the block length, whatever the yaml says.
BlockTokenNum ==
  IF ~dep.use_mla THEN dep.block_token_num
  ELSE IF dep.use_dsv4_attn THEN 256 ELSE 64

\* Neither split fuse nor prefix caching supports a visual model.
SplitFuseTokenNum == IF dep.is_visual THEN 0 ELSE sched.split_fuse_token_num

SplitFuseAligned ==
  dep.use_dsv4_attn => SplitFuseTokenNum % BlockTokenNum = 0
\* Mutant: the cache manager's copy is taken before the length is normalised.
CacheManagerConfigAsWritten ==
  [block_token_num |-> dep.block_token_num,
   tensor_para_size |-> rt.tensor_parallel_size,
   min_flexible_cache_num |-> dep.min_flexible_cache_num,
   enable_prefix_caching |-> dep.enable_auto_prefix_cache /\ ~dep.is_visual]

CacheManagerConfig ==
  [block_token_num |-> BlockTokenNum,
   tensor_para_size |-> rt.tensor_parallel_size,
   min_flexible_cache_num |-> dep.min_flexible_cache_num,
   enable_prefix_caching |-> dep.enable_auto_prefix_cache /\ ~dep.is_visual]

ParseBlockManager ==
  /\ Go("block_manager", "backend")
  /\ SplitFuseAligned
  /\ block' = [block EXCEPT !.block_token_num = BlockTokenNum,
                 !.reserved_device_memory = dep.reserved_device_memory]
  /\ rt' = [rt EXCEPT !.block_token_num = BlockTokenNum]
  /\ sched' = [sched EXCEPT !.split_fuse_token_num = SplitFuseTokenNum,
                 !.swa_block_num_ratio =
                    IF dep.swa_block_num_ratio = 0 THEN 1
                    ELSE dep.swa_block_num_ratio]
  /\ cache' = CacheManagerConfig
  /\ UNCHANGED <<dep, conn, pd_v2, gcc, pipeline, expert, fast_path,
                 forwarding>>

\* auto means DeepEP as soon as there are several expert nodes.
AllToAllMode ==
  IF dep.moe_all_to_all_mode # "auto" THEN dep.moe_all_to_all_mode
  ELSE IF rt.expert_world_size > 1 THEN "DEEPEP_NORMAL" ELSE "DISABLED"

AllToAllValid ==
  /\ dep.moe_all_to_all_mode # "other"
  /\ AllToAllMode # "DISABLED" =>
       /\ rt.attn_data_parallel_size = rt.tensor_parallel_size
       /\ dep.enable_full_shared_expert

\* What the dispatch buffer of one data parallel group holds.
LowLatencyMaxTokens ==
  IF AllToAllMode # "DEEPEP_LOW_LATENCY" THEN dep.deepep_low_latency_max_tokens
  ELSE Smaller(dep.deepep_low_latency_max_tokens,
               sched.max_batch_size \div rt.attn_data_parallel_size)

ParseBackend ==
  /\ Go("backend", "connector")
  /\ AllToAllValid
  /\ expert' = [expert EXCEPT !.expert_world_size = dep.expert_world_size,
                  !.expert_para_size = dep.expert_para_size]
  /\ rt' = [rt EXCEPT
              !.enable_blocked_multi_token_forwarding_kv =
                 \/ dep.enable_blocked_multi_token_forwarding_kv
                 \/ dep.use_mla
                 \/ sched.mtp_step_num > 0,
              !.kv_cache_dtype = IF dep.kv_cache_dtype = "other" THEN "auto"
                                 ELSE dep.kv_cache_dtype,
              !.moe_all_to_all_mode = AllToAllMode,
              !.deepep_low_latency_max_tokens = LowLatencyMaxTokens]
  /\ UNCHANGED <<dep, sched, cache, block, conn, pd_v2, gcc, pipeline,
                 fast_path, forwarding>>

\* DECODE_NODE_BENCHMARK overrides the role; an unknown role is none.
GroupRole ==
  IF dep.decode_node_benchmark THEN "DECODE"
  ELSE IF dep.group_role = "other" THEN "NONE" ELSE dep.group_role

IsPdV2 == GroupRole # "NONE" /\ dep.backend = "v2"

\* pd_v2 hooks attach to the event-driven scheduler only, and to one role.
ConnectorValid ==
  GroupRole # "NONE" =>
    /\ IsPdV2 => /\ sched.scheduler_type = "EVENT_DRIVEN"
                 /\ GroupRole # "BOTH"
    /\ dep.transfer_layer_chunk_size >= 0

InitConnectorConfig ==
  /\ Go("connector", "global_cache")
  /\ ConnectorValid
  /\ conn' = [group_role |-> GroupRole, is_pd_v2 |-> IsPdV2,
              router_addr |-> \/ dep.decode_node_benchmark
                              \/ GroupRole # "NONE" /\ dep.router_addr]
  /\ pd_v2' = [group_role |-> GroupRole, is_pd_v2 |-> IsPdV2]
  /\ UNCHANGED <<dep, sched, cache, block, rt, gcc, pipeline, expert,
                 fast_path, forwarding>>

\* The last lines of ParseScheduleConfig: the global cache connector copies
\* what it needs, then split fuse is taken back from a PD node that sends its
\* KV blocks away.
SplitFuseUnsupported ==
  /\ conn.group_role # "NONE"
  /\ ~(conn.is_pd_v2 /\ conn.group_role = "DECODE")
  /\ cache.enable_prefix_caching

InitGlobalCacheConnectorConfig ==
  /\ Go("global_cache", "members")
  /\ gcc' = IF dep.service_endpoint
            THEN [configured |-> TRUE,
                  max_step_tokens |-> sched.max_step_token_num,
                  block_token_num |-> block.block_token_num]
            ELSE gcc
  /\ sched' = IF SplitFuseUnsupported
              THEN [sched EXCEPT !.split_fuse_token_num = 0] ELSE sched
  /\ UNCHANGED <<dep, cache, block, rt, conn, pd_v2, pipeline, expert,
                 fast_path, forwarding>>
-----------------------------------------------------------------------------
(* After the model's own configuration is known *)

\* The cache keeps the weights' type where multi-token forwarding meets prefix
\* caching, and DSA prefers its own format to anything but e4m3.
KvCacheDtype ==
  IF dep.use_dsa
  THEN IF rt.kv_cache_dtype = "fp8_e4m3" THEN "fp8_e4m3" ELSE "fp8_ds_mla"
  ELSE IF /\ ~dep.use_mla
          /\ rt.enable_blocked_multi_token_forwarding_kv
          /\ cache.enable_prefix_caching
  THEN "auto"
  ELSE IF \/ rt.kv_cache_dtype = "fp8_e4m3"
          \/ rt.kv_cache_dtype = "fp8_e5m2" /\ ~dep.use_mla
  THEN rt.kv_cache_dtype ELSE "auto"

\* PrepareKVScales reads scales only for e4m3 without DSA; FlashInfer wants
\* them all to be one.
ScalesValid ==
  dep.use_flashinfer_for_decode =>
    \/ dep.unit_kv_scales
    \/ dep.use_dsa
    \/ KvCacheDtype # "fp8_e4m3"

UpdateMembers ==
  /\ Go("members", "model")
  /\ ScalesValid
  /\ rt' = [rt EXCEPT !.kv_cache_dtype = KvCacheDtype]
  /\ block' = IF dep.is_quant
              THEN [block EXCEPT !.reserved_device_memory = Larger(@, 2)]
              ELSE block
  /\ UNCHANGED <<dep, sched, cache, conn, pd_v2, gcc, pipeline, expert,
                 fast_path, forwarding>>

HeadsDivisible ==
  \/ dep.num_key_value_heads = 1
  \/ dep.num_key_value_heads % rt.tensor_parallel_size = 0

ExpertsDivisible == rt.tensor_parallel_size % rt.expert_parallel_size = 0

MaxSeqLen ==
  IF sched.max_token_len > 0
  THEN Smaller(sched.max_token_len, dep.max_training_seq_len)
  ELSE dep.max_training_seq_len

\* A prompt is forwarded in one step unless it may be split and the kernels
\* attend to the part that is cached.
MaxStepTokenNum ==
  IF \/ sched.split_fuse_token_num = 0
     \/ ~rt.enable_blocked_multi_token_forwarding_kv
  THEN Larger(sched.max_step_token_num, MaxSeqLen)
  ELSE sched.max_step_token_num
\* Mutant: a chunk set by hand is taken as it is.
MaxChunkedKvTokensAsWritten ==
  IF sched.max_chunked_kv_tokens = 0 THEN MaxStepTokenNum
  ELSE sched.max_chunked_kv_tokens

MaxChunkedKvTokens ==
  Larger(IF sched.max_chunked_kv_tokens = 0 THEN MaxStepTokenNum
         ELSE sched.max_chunked_kv_tokens, MaxSeqLen)
\* Mutant: a pd_v2 decode node is taken for a V1 one.
IsDecodeOnlyByRole == conn.group_role = "DECODE"

\* A V1 decode node never prefills; a pd_v2 one may, for a short remainder.
IsDecodeOnly ==
  /\ conn.group_role = "DECODE"
  /\ ~(pd_v2.is_pd_v2 /\ pd_v2.group_role = "DECODE")

MinFlexibleCacheNum ==
  IF dep.use_qk_norm THEN 0 ELSE cache.min_flexible_cache_num

UpdateModelConfig ==
  /\ Go("model", "fast_path")
  /\ HeadsDivisible
  /\ ExpertsDivisible
  /\ LET step == RoundUp(MaxStepTokenNum, rt.tensor_parallel_size) IN
       /\ sched' = [sched EXCEPT !.max_token_len = MaxSeqLen,
                      !.max_step_token_num = step,
                      !.max_chunked_kv_tokens = MaxChunkedKvTokens]
       /\ rt' = [rt EXCEPT !.max_seq_len = MaxSeqLen,
                   !.max_step_token_num = step,
                   !.max_chunked_kv_tokens = MaxChunkedKvTokens,
                   !.moe_tensor_para_size =
                       rt.tensor_parallel_size \div rt.expert_parallel_size,
                   !.max_batch_size = sched.max_batch_size,
                   !.max_pp_batch_num = sched.max_pp_batch_num,
                   !.mtp_step_num = sched.mtp_step_num,
                   !.enable_async = sched.enable_async,
                   !.enable_executor_build_ahead =
                       sched.enable_executor_build_ahead,
                   !.enable_speculative_decoding =
                       sched.enable_speculative_decoding,
                   !.separate_prefill_decode = conn.group_role # "NONE",
                   !.is_decode_only = IsDecodeOnly,
                   !.enable_prefix_caching =
                       \/ cache.enable_prefix_caching
                       \/ sched.split_fuse_token_num > 0,
                   !.enable_flexible_caching = MinFlexibleCacheNum > 0]
  /\ cache' = [cache EXCEPT !.min_flexible_cache_num = MinFlexibleCacheNum]
  /\ UNCHANGED <<dep, block, conn, pd_v2, gcc, pipeline, expert, fast_path,
                 forwarding>>
\* Mutant: the gate forgets the asynchronous scheduler.
StartupChecksWithoutAsync ==
  /\ sched.enable_executor_build_ahead
  /\ sched.scheduler_type = "DEFAULT"
  /\ rt.attn_data_parallel_size = 1
  /\ rt.expert_parallel_size = 1
  /\ rt.max_pp_batch_num = 1
  /\ ~sched.enable_speculative_decoding
  /\ ~sched.enable_xgrammar
  /\ ~rt.enable_flexible_caching
  /\ ~rt.separate_prefill_decode

\* The start-up gate of build-ahead; it looks at no node count.
StartupChecks ==
  /\ sched.enable_executor_build_ahead
  /\ sched.enable_async
  /\ sched.scheduler_type = "DEFAULT"
  /\ rt.attn_data_parallel_size = 1
  /\ rt.expert_parallel_size = 1
  /\ rt.max_pp_batch_num = 1
  /\ ~sched.enable_speculative_decoding
  /\ ~sched.enable_xgrammar
  /\ ~rt.enable_flexible_caching
  /\ ~rt.separate_prefill_decode

InitializeAtStartup ==
  /\ Go("fast_path", "layout")
  /\ fast_path' = StartupChecks
  /\ UNCHANGED <<dep, sched, cache, block, rt, conn, pd_v2, gcc, pipeline,
                 expert, forwarding>>

\* Without an assignment the node takes every layer, with the ones for
\* multi-token prediction.
PipelineLayers ==
  IF pipeline.lower >= 0 /\ pipeline.upper >= 0 THEN pipeline
  ELSE LET nextn == dep.num_nextn_predict_layers # 0 /\ sched.mtp_step_num > 0
       IN [pipeline EXCEPT !.lower = 0, !.upper = dep.num_layer - 1,
             !.lower_nextn = IF nextn THEN dep.num_layer ELSE -1,
             !.upper_nextn = IF nextn
               THEN dep.num_layer + dep.num_nextn_predict_layers - 1 ELSE -1]

InitializeBlockManagerConfig ==
  /\ Go("layout", "experts")
  /\ pipeline' = PipelineLayers
  /\ rt' = [rt EXCEPT !.block_size = dep.block_size]
  /\ block' = [block EXCEPT !.block_size = dep.block_size,
                 !.swa_block_size = dep.swa_block_size,
                 !.device_blocks = 512, !.host_blocks = 5120]
  /\ UNCHANGED <<dep, sched, cache, conn, pd_v2, gcc, expert, fast_path,
                 forwarding>>

\* Experts on several nodes have to be told where their master is.
ExpertMasterKnown == expert.expert_world_size > 1 => dep.expert_master

InitializeExpertParallelConfig ==
  /\ Go("experts", "forwarding")
  /\ ExpertMasterKnown
  /\ expert' = [expert EXCEPT !.expert_para_size = rt.expert_parallel_size,
                  !.expert_tensor_para_size =
                      rt.tensor_parallel_size \div rt.expert_parallel_size,
                  !.global_expert_para_size =
                      expert.expert_world_size * rt.expert_parallel_size]
  /\ UNCHANGED <<dep, sched, cache, block, rt, conn, pd_v2, gcc, pipeline,
                 fast_path, forwarding>>
-----------------------------------------------------------------------------
(* ForwardingContext: buffers and model inputs, before the blocks *)

ComputeDecodeOnlyStepTokenNum ==
  rt.max_batch_size * Larger(sched.max_decode_tokens_per_req, 1)
    * rt.attn_data_parallel_size

SelectEffectiveStepTokenNum ==
  IF rt.is_decode_only THEN ComputeDecodeOnlyStepTokenNum
  ELSE rt.max_step_token_num

MaxLogitsTokens == rt.max_batch_size * sched.max_decode_tokens_per_req

VocabSizePad == RoundUp(dep.vocab_size, rt.tensor_parallel_size)

HeadNumPerTp == dep.head_num \div rt.attn_tensor_parallel_size

\* A shard of the feed-forward layer, or all of a shared expert.
InterSizePerTp ==
  LET shard(n) == IF dep.enable_full_shared_expert THEN n
                  ELSE n \div rt.tensor_parallel_size
  IN Larger(shard(dep.inter_size), shard(dep.shared_expert_inter_size))

\* What one expert exchange moves for a token.
AllToAllWidth == Larger(dep.hidden_units, 2 * InterSizePerTp)

LowLatencyTokens ==
  IF rt.deepep_low_latency_max_tokens > 0
  THEN rt.deepep_low_latency_max_tokens ELSE rt.max_step_token_num
\* Mutant: the exchange is spread over the tokens rounding down.
AllToAllHiddenSizeFloor(tokens) ==
  IF rt.moe_all_to_all_mode = "DISABLED" THEN 0
  ELSE IF rt.moe_all_to_all_mode = "DEEPEP_NORMAL"
  THEN rt.expert_world_size * AllToAllWidth
  ELSE (dep.local_num_experts * rt.expert_world_size
          * LowLatencyTokens * AllToAllWidth) \div tokens

\* The exchange's share of the shared buffer, spread over the step's tokens.
AllToAllHiddenSize(tokens) ==
  IF rt.moe_all_to_all_mode = "DISABLED" THEN 0
  ELSE IF rt.moe_all_to_all_mode = "DEEPEP_NORMAL"
  THEN rt.expert_world_size * AllToAllWidth
  ELSE DivRoundUp(dep.local_num_experts * rt.expert_world_size
                    * LowLatencyTokens * AllToAllWidth, tokens)

\* The residual streams of one token.
HiddenWidth == dep.hidden_units * dep.hc_mult

\* A token's heads of latent attention, and of sparse attention, which absorbs
\* weights into the heads of prompts as well; a head has the given size.
MlaWidth(size) ==
  IF dep.use_mla /\ ~dep.use_dsv4_attn THEN HeadNumPerTp * size ELSE 0
DsaWidth(size) == IF dep.use_dsa THEN MlaWidth(size) ELSE 0

AbsorbedHeadSize == dep.kv_lora_rank + dep.qk_rope_head_dim

SharedBufferUnitSize(tokens) ==
  Larger(Larger(Larger(InterSizePerTp, HiddenWidth),
                IF sched.mtp_step_num > 0 THEN 2 * dep.hidden_units ELSE 0),
         Larger(AllToAllHiddenSize(tokens),
                Larger(MlaWidth(dep.mla_head_size),
                       DsaWidth(dep.kv_lora_rank))))

\* The widest activation of one token: q, k and v, or both projections of the
\* feed-forward layer, or the heads of MLA, as they are or absorbed.
MaxDim ==
  LET kv == DivRoundUp(dep.num_key_value_heads, rt.attn_tensor_parallel_size)
      qkv == IF dep.use_mla THEN HeadNumPerTp ELSE HeadNumPerTp + 2 * kv
  IN Larger(Larger(qkv * dep.size_per_head, HiddenWidth),
       Larger(2 * InterSizePerTp,
         Larger(MlaWidth(dep.mla_head_size), DsaWidth(AbsorbedHeadSize))))

\* The paged MLA kernel lays its absorbed heads over a token's logits.
LogitsWidth == Larger(VocabSizePad, 2 * MlaWidth(AbsorbedHeadSize))

HiddenBufferSize(tokens) ==
  Larger(Larger(MaxLogitsTokens * LogitsWidth, tokens * MaxDim),
         IF rt.moe_all_to_all_mode = "DISABLED" THEN 0
         ELSE tokens * SharedBufferUnitSize(tokens))

\* ModelInput's constructor: its layers, and the entries of its block tables,
\* which without prefix caching are no more than the free memory has blocks
\* (the subtraction wraps when less is free than is reserved).
LayerNumOnNode ==
  pipeline.upper - pipeline.lower + 1
    + (IF pipeline.lower_nextn >= dep.num_layer
       THEN pipeline.upper_nextn - pipeline.lower_nextn + 1 ELSE 0)
\* Mutant: every block is paired with a whole sliding-window block.
MaxTableBlockNumOfPairs(free) ==
  LET bound == DivRoundUp(rt.max_seq_len, rt.block_token_num)
                 * rt.max_batch_size
      reserved == Percent(block.reserved_device_memory, dep.device_total)
  IN IF rt.enable_prefix_caching \/ free < reserved THEN bound
     ELSE Smaller(bound, (free - reserved)
                           \div (rt.block_size + block.swa_block_size))

MaxTableBlockNum(free) ==
  LET bound == DivRoundUp(rt.max_seq_len, rt.block_token_num)
                 * rt.max_batch_size
      reserved == Percent(block.reserved_device_memory, dep.device_total)
  IN IF rt.enable_prefix_caching \/ free < reserved THEN bound
     ELSE Smaller(bound, (free - reserved) \div rt.block_size)

ForwardingContextInit ==
  /\ Go("forwarding", "memory")
  /\ LET tokens == SelectEffectiveStepTokenNum IN
       forwarding' = [tokens |-> tokens,
         logits |-> MaxLogitsTokens,
         hidden_buffer |-> HiddenBufferSize(tokens),
         shared_buffer |-> tokens * SharedBufferUnitSize(tokens),
         mtp_hidden_buffer |-> IF sched.mtp_step_num > 0
                               THEN tokens * HiddenWidth ELSE 0,
         layers |-> LayerNumOnNode,
         table_blocks |->
           MaxTableBlockNum(dep.device_free + dep.allocated_later),
         slots |-> IF fast_path THEN 2 ELSE 1]
  /\ UNCHANGED <<dep, sched, cache, block, rt, conn, pd_v2, gcc, pipeline,
                 expert, fast_path>>
-----------------------------------------------------------------------------
(* CalculateBlockNumber and the pipeline's agreement *)

\* Bytes for blocks: a share of the device, or all that is free but a reserve.
DeviceBlockMemory ==
  IF dep.block_device_memory >= 0
  THEN RoundDown(Smaller(Percent(dep.block_device_memory, dep.device_total),
                         dep.device_free), 8)
  ELSE LET reserved ==
         RoundUp(Percent(block.reserved_device_memory, dep.device_total), 8)
       IN RoundDown(Larger(dep.device_free - reserved, 0), 8)

HostBlockMemory ==
  RoundDown(Smaller(DeviceBlockMemory * dep.block_host_memory_factor,
                    Tenths(8, dep.host_free)), 8)
\* Mutant: the sliding-window pool is left out of the division.
EffectiveBlockSizeWithoutSwa == block.block_size

\* Every block is paired with its share of a sliding-window block.
EffectiveBlockSize ==
  block.block_size + Tenths(sched.swa_block_num_ratio, block.swa_block_size)

\* KLLM_MAX_DEVICE_BLOCKS can only lower the number.
DeviceBlocksNum ==
  LET n == DeviceBlockMemory \div EffectiveBlockSize
  IN IF dep.max_device_blocks \in 1..n THEN dep.max_device_blocks ELSE n

SwaBlocks(n) ==
  IF block.swa_block_size > 0 THEN Tenths(sched.swa_block_num_ratio, n)
  ELSE block.swa_blocks
\* Mutant: the blocks kept back for launching are planned with.
UsableTokensOfAllBlocks == DeviceBlocksNum * block.block_token_num

UsableTokens ==
  (DeviceBlocksNum - sched.launch_block_threshold) * block.block_token_num
\* Mutant: fewer blocks than the launch threshold are accepted.
MemoryValidWithoutThreshold ==
  /\ block.reserved_device_memory > 0
  /\ dep.block_host_memory_factor >= 0

MemoryValid ==
  /\ block.reserved_device_memory > 0
  /\ dep.block_host_memory_factor >= 0
  /\ DeviceBlocksNum > sched.launch_block_threshold

CalculateBlockNumber ==
  /\ Go("memory", "sync")
  /\ MemoryValid
  /\ sched' = [sched EXCEPT !.max_step_token_num = Smaller(@, UsableTokens)]
  /\ block' = [block EXCEPT !.device_blocks = DeviceBlocksNum,
                 !.host_blocks = HostBlockMemory \div block.block_size,
                 !.swa_blocks = SwaBlocks(DeviceBlocksNum)]
  /\ UNCHANGED <<dep, cache, rt, conn, pd_v2, gcc, pipeline, expert,
                 fast_path, forwarding>>

\* The nodes of a pipeline agree on the least block numbers (outside of this
\* code; the peer has as many of both), and each takes them over with the pool
\* derived from them.
AgreedBlockNum(own) == Smaller(own, dep.peer_block_num)

ResetPipelineBlockNumber ==
  /\ Go("sync", "serving")
  /\ IF dep.world_size > 1
     THEN /\ pipeline' = [pipeline EXCEPT
               !.device_block_num = AgreedBlockNum(block.device_blocks),
               !.host_block_num = AgreedBlockNum(block.host_blocks)]
          /\ block' = [block EXCEPT
               !.device_blocks = pipeline'.device_block_num,
               !.host_blocks = pipeline'.host_block_num,
               !.swa_blocks = SwaBlocks(pipeline'.device_block_num)]
     ELSE UNCHANGED <<pipeline, block>>
  /\ UNCHANGED <<dep, sched, cache, rt, conn, pd_v2, gcc, expert, fast_path,
                 forwarding>>

\* A check that throws ends the start.
Throw ==
  /\ \/ stage = "parallel" /\ ~ParallelSizesValid
     \/ stage = "scheduler" /\ ~BatchSettingsValid
     \/ stage = "block_manager" /\ ~SplitFuseAligned
     \/ stage = "backend" /\ ~AllToAllValid
     \/ stage = "connector" /\ ~ConnectorValid
     \/ stage = "members" /\ ~ScalesValid
     \/ stage = "model" /\ ~(HeadsDivisible /\ ExpertsDivisible)
     \/ stage = "experts" /\ ~ExpertMasterKnown
     \/ stage = "memory" /\ ~MemoryValid
  /\ stage' = "rejected"
  /\ UNCHANGED <<dep, sched, cache, block, rt, conn, pd_v2, gcc, pipeline,
                 expert, fast_path, forwarding>>

Next ==
  \/ ParseParallelSizes \/ ParseBatchScheduler \/ ParseBlockManager
  \/ ParseBackend \/ InitConnectorConfig \/ InitGlobalCacheConnectorConfig
  \/ UpdateMembers \/ UpdateModelConfig \/ InitializeAtStartup
  \/ InitializeBlockManagerConfig \/ InitializeExpertParallelConfig
  \/ ForwardingContextInit \/ CalculateBlockNumber
  \/ ResetPipelineBlockNumber \/ Throw
  \/ stage \in {"serving", "rejected"} /\ UNCHANGED vars  \* the start is over

Spec == Init /\ [][Next]_vars
-----------------------------------------------------------------------------
(* What the threads that read the configurations rely on *)

Serving == stage = "serving"

\* The structures keep their shapes through every stage.
TypeOK ==
  /\ dep \in Deployment
  /\ stage \in {Stages[i] : i \in DOMAIN Stages} \cup {"rejected"}
  /\ sched.max_step_token_num \in Nat
  /\ sched.split_fuse_token_num \in Nat
  /\ sched.scheduler_type \in SchedulerTypes
  /\ cache.enable_prefix_caching \in BOOLEAN
  /\ block.device_blocks \in Nat
  /\ block.block_token_num \in Nat
  /\ rt.tensor_parallel_size \in Nat \ {0}
  /\ rt.attn_data_parallel_size \in Nat \ {0}
  /\ rt.kv_cache_dtype \in KvCacheDtypes
  /\ rt.moe_all_to_all_mode \in AllToAllModes
  /\ rt.max_step_token_num \in Nat
  /\ conn.group_role \in GroupRoles
  /\ fast_path \in BOOLEAN
  /\ forwarding.slots \in {1, 2}

\* GetDataParaGroupDevices: the devices of a data parallel group.
GetDataParaGroupDevices(dp_id) ==
  LET size == rt.tensor_parallel_size \div rt.attn_data_parallel_size
  IN {dp_id * size + i : i \in 0..size - 1}

\* The groups of attention's data parallelism divide the node's devices, the
\* experts' groups multiply up to them, and the two structures that hold the
\* expert sizes agree; DeepEP has one device in a group. (Three functions
\* divide these numbers, at three stages.)
ParallelTopology ==
  Serving =>
    LET groups == 0..rt.attn_data_parallel_size - 1 IN
    /\ UNION {GetDataParaGroupDevices(g) : g \in groups}
         = 0..rt.tensor_parallel_size - 1
    /\ \A g \in groups :
         Cardinality(GetDataParaGroupDevices(g)) = rt.attn_tensor_parallel_size
    /\ rt.attn_tensor_parallel_size * rt.attn_data_parallel_size
         = rt.tensor_parallel_size
    /\ rt.moe_tensor_para_size * rt.expert_parallel_size
         = rt.tensor_parallel_size
    /\ expert.expert_tensor_para_size * expert.expert_para_size
         = rt.tensor_parallel_size
    /\ expert.global_expert_para_size
         = rt.expert_world_size * rt.expert_parallel_size
    /\ rt.moe_all_to_all_mode # "DISABLED" => rt.attn_tensor_parallel_size = 1

\* With multi-token prediction on, everything that it needs is there: the
\* kernels that attend to cached tokens, room for the drafts of every request,
\* the model's extra layers and their hidden states; and no extra layer takes
\* memory when it is off. The step number is reset at one stage, copied at
\* another, and decides about layers and buffers at two more.
MtpSupported ==
  Serving =>
    IF rt.mtp_step_num > 0
    THEN /\ rt.enable_blocked_multi_token_forwarding_kv
         /\ sched.ptp_step_num = 0
         /\ forwarding.logits >= rt.max_batch_size * (rt.mtp_step_num + 1)
         /\ dep.world_size = 1 => forwarding.layers > dep.num_layer
         /\ forwarding.mtp_hidden_buffer >= forwarding.tokens
    ELSE forwarding.layers = dep.num_layer

\* On every node that may forward a prompt, the forwarding buffers hold the
\* largest step that its scheduler plans, and elsewhere a decode step of every
\* request (a pd_v2 decode node forwards short remainders of prompts itself).
PrefillFits ==
  Serving =>
    IF conn.group_role = "DECODE" /\ ~conn.is_pd_v2
    THEN forwarding.tokens
           >= rt.max_batch_size * (1 + rt.mtp_step_num + 2 * sched.ptp_step_num)
    ELSE forwarding.tokens >= sched.max_step_token_num

\* The shared and hidden buffers, whose size is a number of tokens times the
\* widest use per token, hold each use in full: the logits of a batch, the
\* hidden states, and an expert exchange of all nodes in either mode.
BuffersFit ==
  Serving =>
    LET width == AllToAllWidth IN
    /\ forwarding.hidden_buffer >= forwarding.logits * dep.vocab_size
    /\ forwarding.hidden_buffer >= forwarding.tokens * HiddenWidth
    /\ rt.moe_all_to_all_mode = "DEEPEP_LOW_LATENCY" =>
         forwarding.shared_buffer >= dep.local_num_experts
           * rt.expert_world_size * LowLatencyTokens * width
    /\ rt.moe_all_to_all_mode = "DEEPEP_NORMAL" =>
         forwarding.shared_buffer
           >= forwarding.tokens * rt.expert_world_size * width
    /\ rt.moe_all_to_all_mode # "DISABLED" =>
         forwarding.hidden_buffer >= forwarding.shared_buffer

\* The block tables of a model input, sized before the blocks are counted, have
\* an entry for every block (without a share of the device set by hand).
TablesCoverBlocks ==
  Serving /\ dep.block_device_memory < 0 =>
    \/ forwarding.table_blocks >= block.device_blocks
    \/ forwarding.table_blocks
         >= rt.max_batch_size * DivRoundUp(rt.max_seq_len, rt.block_token_num)

\* What is allocated before the node serves holds whatever is planned on it later:
\* the buffers a step, the buffers each use of them, the tables all blocks.
BuffersSuffice == PrefillFits /\ BuffersFit /\ TablesCoverBlocks

\* A request of the longest length that is accepted fits one chunk of cached
\* tokens and, if prompts are not split, one step - unless the blocks cannot
\* hold it, which the start only warns of.
PromptFits ==
  Serving =>
    /\ sched.max_token_len = rt.max_seq_len
    /\ rt.max_chunked_kv_tokens >= rt.max_seq_len
    /\ \/ sched.split_fuse_token_num > 0
            /\ rt.enable_blocked_multi_token_forwarding_kv
       \/ sched.max_step_token_num >= sched.max_token_len
       \/ (block.device_blocks - sched.launch_block_threshold)
            * block.block_token_num < sched.max_token_len

\* A node of its own never plans a step that its blocks cannot hold beside the
\* ones kept back for launching.
StepFitsBlocks ==
  Serving /\ dep.world_size = 1 =>
    /\ block.device_blocks > sched.launch_block_threshold
    /\ sched.max_step_token_num
         <= (block.device_blocks - sched.launch_block_threshold)
              * block.block_token_num

\* The block pools fit the memory that was measured, to a byte per block, and
\* the sliding-window pool keeps its ratio to the main one when a pipeline
\* lowers the number.
PoolsFitMemory ==
  Serving =>
    /\ block.device_blocks * block.block_size
         + block.swa_blocks * block.swa_block_size
         <= DeviceBlockMemory + block.device_blocks
    /\ block.swa_block_size > 0 =>
         block.swa_blocks
           = Tenths(sched.swa_block_num_ratio, block.device_blocks)

\* The blocks that were counted exist, and are enough for what is planned.
BlocksFitMemory == StepFitsBlocks /\ PoolsFitMemory

\* What an operator has to write to get build-ahead, said of the deployment
\* itself: unknown values fall back to ones that allow it.
Eligible(d) ==
  /\ d.enable_executor_build_ahead /\ d.enable_async
  /\ d.scheduler_type # "EVENT_DRIVEN"
  /\ d.attn_data_para_size = 1 /\ d.expert_para_size = 1
  /\ d.max_pp_batch_num = 1
  /\ ~d.enable_speculative_decoding \/ d.speculative_method = "other"
  /\ ~d.enable_xgrammar
  /\ d.min_flexible_cache_num = 0 \/ d.use_qk_norm
  /\ d.group_role \in {"NONE", "other"} /\ ~d.decode_node_benchmark

\* Build-ahead is on exactly for the deployments that are eligible, and then,
\* and only then, a second model input was allocated for it.
FastPathIffEligible ==
  Serving =>
    /\ fast_path <=> Eligible(dep)
    /\ fast_path <=> forwarding.slots = 2
    /\ fast_path => rt.enable_async /\ rt.enable_executor_build_ahead

\* The copies of one setting that different parts of the program read agree
\* when the node serves, though some were taken before others were changed; and
\* every stage keeps the types.
CopiesAgree ==
  /\ TypeOK
  /\ Serving =>
    /\ {block.block_token_num, cache.block_token_num, rt.block_token_num}
         = {BlockTokenNum}
    /\ gcc.configured => gcc.block_token_num = BlockTokenNum
    /\ block.block_size = rt.block_size
    /\ cache.tensor_para_size = rt.tensor_parallel_size
    /\ rt.mtp_step_num = sched.mtp_step_num
    /\ pd_v2.group_role = conn.group_role /\ pd_v2.is_pd_v2 = conn.is_pd_v2
    /\ rt.enable_flexible_caching <=> cache.min_flexible_cache_num > 0
    /\ sched.split_fuse_token_num > 0 \/ cache.enable_prefix_caching
         <=> rt.enable_prefix_caching
    /\ sched.max_step_token_num <= rt.max_step_token_num
    /\ rt.max_step_token_num % rt.tensor_parallel_size = 0
=============================================================================

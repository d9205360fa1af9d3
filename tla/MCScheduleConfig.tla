---------------------------- MODULE MCScheduleConfig ----------------------------
(***************************************************************************)
(* Instances of ScheduleConfig: the deployments that differ from one of a  *)
(* few usual ones in at most two settings.                                 *)
(***************************************************************************)
EXTENDS ScheduleConfig

\* One node of a dense model, every setting at its default.
Plain ==
  [device_num |-> 4, world_size |-> 1, peer_block_num |-> 12,
   device_total |-> 100000, device_free |-> 60000, allocated_later |-> 0,
   host_free |-> 100000, max_device_blocks |-> 0, o_proj_out_of_dp |-> FALSE,
   decode_node_benchmark |-> FALSE,
   use_mla |-> FALSE, use_dsa |-> FALSE, use_dsv4_attn |-> FALSE,
   is_visual |-> FALSE, use_qk_norm |-> FALSE, is_quant |-> FALSE,
   unit_kv_scales |-> TRUE, ptp_step_num |-> 0,
   num_layer |-> 4, num_nextn_predict_layers |-> 1,
   num_key_value_heads |-> 4, max_training_seq_len |-> 600,
   head_num |-> 8, size_per_head |-> 2, hidden_units |-> 16,
   inter_size |-> 24, shared_expert_inter_size |-> 0, vocab_size |-> 30,
   local_num_experts |-> 2, hc_mult |-> 1, mla_head_size |-> 5,
   kv_lora_rank |-> 4, qk_rope_head_dim |-> 2,
   block_size |-> 1000, swa_block_size |-> 0,
   tensor_para_size |-> 2, attn_data_para_size |-> 1,
   expert_para_size |-> 1, expert_world_size |-> 1,
   expert_master |-> TRUE,
   enable_full_shared_expert |-> FALSE, moe_all_to_all_mode |-> "auto",
   deepep_low_latency_max_tokens |-> 256, scheduler_type |-> "DEFAULT",
   max_token_len |-> 0, max_step_tokens |-> 500,
   max_chunked_kv_tokens |-> 0, max_batch_size |-> 5,
   max_pp_batch_num |-> 1, launch_block_threshold |-> 2,
   split_fuse_token_num |-> 0, enable_speculative_decoding |-> FALSE,
   speculative_method |-> "", mtp_step_num |-> 0, enable_xgrammar |-> FALSE,
   enable_async |-> FALSE, enable_executor_build_ahead |-> FALSE,
   block_token_num |-> 16, reserved_device_memory |-> 1,
   block_device_memory |-> -1, block_host_memory_factor |-> 2,
   swa_block_num_ratio |-> 1, min_flexible_cache_num |-> 0,
   enable_auto_prefix_cache |-> FALSE,
   enable_blocked_multi_token_forwarding_kv |-> FALSE,
   use_flashinfer_for_decode |-> FALSE, kv_cache_dtype |-> "auto",
   group_role |-> "NONE", backend |-> "", router_addr |-> FALSE,
   transfer_layer_chunk_size |-> 1, service_endpoint |-> FALSE]

BuildAhead ==
  [Plain EXCEPT !.enable_async = TRUE, !.enable_executor_build_ahead = TRUE]

\* An MLA model with experts on two nodes, one device in each group.
Experts ==
  [Plain EXCEPT !.use_mla = TRUE, !.attn_data_para_size = 2,
     !.num_key_value_heads = 1, !.expert_world_size = 2,
     !.enable_full_shared_expert = TRUE, !.shared_expert_inter_size = 9,
     !.local_num_experts = 3]

\* A decode node of a pd_v2 deployment.
PdV2Decode ==
  [Plain EXCEPT !.group_role = "DECODE", !.backend = "v2",
     !.scheduler_type = "EVENT_DRIVEN", !.enable_auto_prefix_cache = TRUE,
     !.split_fuse_token_num = 256]

Usual == {Plain, BuildAhead, Experts, PdV2Decode}

\* The settings that are varied, each with the values it takes beside the
\* usual one; two are varied together where one means nothing alone. A later
\* one of the list wins over an earlier one that sets the same.
Variants(d) ==
  <<{[d EXCEPT !.tensor_para_size = n] : n \in {0, 1, 3, 5}},
     {[d EXCEPT !.attn_data_para_size = n] : n \in {0, 1, 2}},
     {[d EXCEPT !.expert_para_size = n] : n \in {2, 3}},
     {[d EXCEPT !.expert_world_size = n] : n \in {1, 2}},
     {[d EXCEPT !.enable_full_shared_expert = b] : b \in BOOLEAN},
     {[d EXCEPT !.moe_all_to_all_mode = m] :
      m \in {"DEEPEP_NORMAL", "DEEPEP_LOW_LATENCY", "other"}},
     {[d EXCEPT !.deepep_low_latency_max_tokens = n] : n \in {0, 1}},
     {[d EXCEPT !.scheduler_type = t] : t \in {"EVENT_DRIVEN", "other"}},
     {[d EXCEPT !.max_token_len = n] : n \in {100, 1000}},
     {[d EXCEPT !.max_step_tokens = 2001], [d EXCEPT !.max_batch_size = 1]},
     {[d EXCEPT !.max_chunked_kv_tokens = n] : n \in {50, 5000}},
     {[d EXCEPT !.max_pp_batch_num = n] : n \in {0, 2}},
     {[d EXCEPT !.split_fuse_token_num = n] : n \in {100, 256}},
     {[d EXCEPT !.enable_speculative_decoding = TRUE,
                  !.speculative_method = m] : m \in {"", "other"}},
     {[d EXCEPT !.mtp_step_num = 2], [d EXCEPT !.ptp_step_num = 1],
      [d EXCEPT !.num_nextn_predict_layers = 0],
      [d EXCEPT !.enable_xgrammar = TRUE], [d EXCEPT !.enable_async = FALSE],
      [d EXCEPT !.enable_executor_build_ahead = FALSE],
      [d EXCEPT !.o_proj_out_of_dp = TRUE]},
     {[d EXCEPT !.min_flexible_cache_num = 1],
      [d EXCEPT !.use_qk_norm = TRUE], [d EXCEPT !.is_quant = TRUE],
      [d EXCEPT !.enable_auto_prefix_cache = TRUE],
      [d EXCEPT !.enable_blocked_multi_token_forwarding_kv = TRUE]},
     {[d EXCEPT !.use_mla = TRUE], [d EXCEPT !.is_visual = TRUE],
      [d EXCEPT !.use_dsa = TRUE], [d EXCEPT !.num_key_value_heads = 3],
      [d EXCEPT !.use_mla = TRUE, !.use_dsa = TRUE, !.kv_lora_rank = 9],
      [d EXCEPT !.hc_mult = 3], [d EXCEPT !.expert_master = FALSE],
      [d EXCEPT !.use_mla = TRUE, !.use_dsv4_attn = TRUE,
                  !.swa_block_size = 505]},
     {[d EXCEPT !.use_flashinfer_for_decode = TRUE, !.unit_kv_scales = FALSE,
                  !.kv_cache_dtype = t] : t \in KvCacheDtypes},
     {[d EXCEPT !.group_role = "BOTH", !.backend = b] : b \in {"", "v2"}},
     {[d EXCEPT !.group_role = r] : r \in {"PREFILL", "DECODE", "other"}},
     {[d EXCEPT !.decode_node_benchmark = TRUE],
      [d EXCEPT !.transfer_layer_chunk_size = -1],
      [d EXCEPT !.service_endpoint = TRUE], [d EXCEPT !.backend = ""]},
     {[d EXCEPT !.world_size = 2], [d EXCEPT !.device_free = 900],
      [d EXCEPT !.device_free = 9000], [d EXCEPT !.allocated_later = 5000],
      [d EXCEPT !.block_device_memory = 20],
      [d EXCEPT !.max_device_blocks = 7],
      [d EXCEPT !.reserved_device_memory = 0],
      [d EXCEPT !.swa_block_num_ratio = 3]}>>

\* A deployment changed by a setting that is not before the i-th.
ChangedFrom(d, i) ==
  LET variants == Variants(d)
  IN UNION {variants[j] : j \in {k \in DOMAIN variants : k >= i}}

\* The deployments two settings away from a usual one (the bound), or closer.
TwoAwayFrom(d) ==
  LET variants == Variants(d)
  IN UNION {UNION {ChangedFrom(e, i) : e \in variants[i]} : i \in DOMAIN variants}
TwoAway ==
  Usual \cup UNION {ChangedFrom(d, 1) \cup TwoAwayFrom(d) : d \in Usual}
=============================================================================

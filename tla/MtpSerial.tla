------------------------------ MODULE MtpSerial ------------------------------
(***************************************************************************)
(* Build-ahead with multi-token prediction: one request of InferRequest,   *)
(* the ScheduleOutputs on their way to the executor, and the Execute       *)
(* thread of executor/model_runner.cpp, which repairs the placeholder      *)
(* block of a step on the CPU from the host ring that the step before it   *)
(* left behind.                                                            *)
(*                                                                         *)
(* In InferRequest the executor is an oracle that knows the text.  Here it *)
(* has only what the code gives it: the snapshot the Engine took when the  *)
(* step was launched, its own ring entry, the last block it repaired, the  *)
(* drafts it froze, and a KV cache.  It answers with the right token just  *)
(* when the cache and the sequence it forwards hold the right tokens at    *)
(* the right positions.  RefinesInferRequest says that the oracle is no    *)
(* stronger than this machinery.                                           *)
(*                                                                         *)
(* Ring, accepted tokens, last block and frozen drafts are maps keyed by   *)
(* request in the code; they are shown here for the one request.           *)
(***************************************************************************)
EXTENDS InferRequest

ASSUME MtpSerialAssumption == FastPath /\ MtpStepNum > 0

VARIABLES
  recompute_ids,  \* the next ScheduleOutput names the request in recompute_req_ids
  dispatched,     \* FIFO: launched steps the Execute thread has not taken
  results,        \* FIFO: answers the Engine has not taken
  host_ring,      \* mtp_serial_host_ring_ and mtp_serial_accepted_tokens_
  last_block,     \* mtp_serial_last_block_
  next_drafts,    \* mtp_serial_next_mtp_drafts_
  exec_req,       \* the ExecutorInferRequest
  kv_cache        \* the token whose KV is stored at each position

ring_state == <<host_ring, last_block, next_drafts>>
runner == <<recompute_ids, dispatched, results, ring_state, exec_req, kv_cache>>

\* Absent map entries, and the offset of a step without a placeholder.
NoPlaceholder == -1
NoEntry == [token |-> kFastPathPlaceholderTokenId, accepted |-> <<>>]
NoBlock == [pos |-> -1, draft |-> 0]
NoDrafts == <<>>

SerialInit ==
  /\ Init
  /\ recompute_ids = FALSE
  /\ dispatched = <<>>
  /\ results = <<>>
  /\ host_ring = NoEntry
  /\ last_block = NoBlock
  /\ next_drafts = NoDrafts
  /\ exec_req = [fwd |-> <<>>, kv |-> 0, draft_num |-> 0, draft_tokens |-> <<>>]
  /\ kv_cache = <<>>

-----------------------------------------------------------------------------
(***************************************************************************)
(* Engine.                                                                 *)
(***************************************************************************)

Plan ==
  /\ \/ \E n \in 1..Len(prefilling_tokens) : PrefixCacheHit(n)
     \/ \E n \in 0..MtpStepNum : SetInflightTaskGenResultEstimation(n)
     \/ \E n \in 1..Len(prefilling_tokens) : PlanPrefill(n)
     \/ PlanDecode
  /\ UNCHANGED runner

\* GetLatestPendingPlaceholderOffset, for a step launched behind another one.
LaunchPlaceholderOffset ==
  IF HasInflightTask /\ pending_placeholders' # <<>>
    THEN Last(pending_placeholders').pos
    ELSE NoPlaceholder

\* Launch the planned step and take its snapshot under the same lock.
LaunchScheduleOutput ==
  /\ LaunchPlanningTask
  /\ dispatched' = Append(dispatched,
       [kind |-> Last(inflight_tasks').kind,
        fwd |-> forwarding_tokens',
        kv |-> kv_cached_token_num',
        draft_num |-> forwarding_tokens_draft_num',
        ph |-> LaunchPlaceholderOffset,
        recompute |-> recompute_ids])
  /\ recompute_ids' = FALSE
  /\ UNCHANGED <<results, ring_state, exec_req, kv_cache>>

\* The oldest answer reaches the Engine.
UpdateWithGenerationResult ==
  LET r == Head(results)
  IN  /\ results # <<>>
      /\ LaunchedAhead
      /\ Retire(r.gen, r.acc, r.dr)
      /\ IF Samples(Head(inflight_tasks)) /\ ~is_eos_generated
           THEN exec_len' = r.len /\ exec_good' = r.good
           ELSE UNCHANGED <<exec_len, exec_good>>
      /\ is_stopped' = (is_stopped \/ is_eos_generated')
      /\ results' = Tail(results)
      /\ UNCHANGED <<eos, recomputes, recompute_ids, dispatched, ring_state,
                     exec_req, kv_cache>>

SerialStop == Stop /\ UNCHANGED runner

SyncRecompute ==
  /\ Recompute
  /\ recompute_ids' = TRUE
  /\ UNCHANGED <<dispatched, results, ring_state, exec_req, kv_cache>>

-----------------------------------------------------------------------------
(***************************************************************************)
(* Execute thread: repair.  A step s is a dispatched snapshot; the other   *)
(* arguments are the maps' entries after lifecycle clearing.               *)
(***************************************************************************)

FirstPlaceholder(fwd) ==
  LET at == {i \in DOMAIN fwd : fwd[i] = kFastPathPlaceholderTokenId}
  IN  IF at = {} THEN NoPlaceholder
      ELSE (CHOOSE i \in at : \A j \in at : i <= j) - 1

ResolveLaunchPlaceholderOffset(s) ==
  IF s.ph # NoPlaceholder THEN s.ph ELSE FirstPlaceholder(s.fwd)

\* Where the executor believes the step before s put its block.  A block that
\* does not end at the placeholder is shortened, or distrusted altogether.
OldBlock(s, ph, last) ==
  IF last = NoBlock THEN [pos |-> s.kv, draft |-> 0]
  ELSE IF last.draft = 0 \/ ph = BlockEnd(last) THEN last
  ELSE IF ph > last.pos + 1
    THEN [last EXCEPT !.draft = Min2(@, ph - last.pos - 1)]
  ELSE [pos |-> Min2(last.pos, s.kv), draft |-> 0]

\* Everything before the new main token: the accepted drafts overwrite the old
\* block's and the rejected ones are cut, or are inserted if no block is known.
VerifiedPrefix_KeepRejected(fwd, ph, old, acc) == SubSeq(fwd, 1, ph)
VerifiedPrefix(fwd, ph, old, acc) ==
  IF old.draft > 0 THEN SubSeq(fwd, 1, old.pos + 1) \o acc
  ELSE SubSeq(fwd, 1, ph) \o acc

\* RepairMtpSerialBlock, once it is known to apply.
Repaired(s, ph, entry, old, drafts) ==
  LET prefix == VerifiedPrefix(s.fwd, ph, old, entry.accepted)
      fill == SubSeq(drafts, 1, Min2(Len(drafts), s.draft_num))
      main == IF old.draft > 0 /\ Len(prefix) > ph THEN Len(prefix) ELSE ph
      rest == SubSeq(s.fwd, main + 2 + s.draft_num, Len(s.fwd))
  IN  [fwd |-> prefix \o <<entry.token>> \o fill \o rest,
       kv |-> Len(prefix), draft_num |-> Len(fill), repaired |-> TRUE]

\* ApplyCpuBuildAheadRepairFromRing.
Repair(s, entry, last, frozen) ==
  LET ph == ResolveLaunchPlaceholderOffset(s)
  IN  IF /\ ph # NoPlaceholder
         /\ entry # NoEntry
         /\ ph + s.draft_num < Len(s.fwd)
        THEN Repaired(s, ph, entry, OldBlock(s, ph, last),
                      IF frozen # NoDrafts THEN frozen ELSE exec_req.draft_tokens)
        ELSE [fwd |-> s.fwd, kv |-> s.kv, draft_num |-> s.draft_num,
              repaired |-> FALSE]

-----------------------------------------------------------------------------
(***************************************************************************)
(* Execute thread: the model.  It continues the text correctly from a      *)
(* context that is the text, and wrongly from any other.                   *)
(***************************************************************************)

\* The context of a step: what is cached up to kv and what it forwards.  The
\* first chunk of a prompt finds the blocks of the prefix cache in place.
Context(s, q, cached) ==
  [i \in 1..Len(q.fwd) |->
     IF i > q.kv \/ (s.kind # "decode" /\ i > Len(cached)) THEN q.fwd[i]
     ELSE IF i <= Len(cached) THEN cached[i]
     ELSE Wrong]

IsText(ctx, n) == \A i \in 1..n : ctx[i] = i

\* How many of the drafts behind position base the verification accepts.
RightDrafts(ctx, base) ==
  CHOOSE v \in 0..(Len(ctx) - base) :
    /\ \A i \in 1..v : ctx[base + i] = base + i
    /\ v < Len(ctx) - base => ctx[base + v + 1] # base + v + 1

\* Sampling, verification and the drafts of the next step, cut behind a stop
\* token; good of the next drafts are right.
Answer(ctx, draft_num, good) ==
  LET base == Len(ctx) - draft_num
      v == RightDrafts(ctx, base)
      full == base + v + 1
      len == IF base < eos /\ eos <= full THEN eos ELSE full
  IN  IF IsText(ctx, base)
        THEN [gen |-> IF len = full THEN <<full>> ELSE <<>>,
              acc |-> [i \in 1..Min2(v, len - base) |-> base + i],
              dr |-> Drafts(len, good), len |-> len, good |-> good]
        ELSE [gen |-> <<Wrong>>, acc |-> <<>>, dr |-> Drafts(0, 0),
              len |-> base + 1, good |-> 0]

NoAnswer == [gen |-> <<>>, acc |-> <<>>, dr |-> <<>>, len |-> 0, good |-> 0]

-----------------------------------------------------------------------------
(***************************************************************************)
(* Execute thread: one iteration of HandleExecute, with the inline          *)
(* postprocess.  The thread alone touches these variables, so it is one    *)
(* step.                                                                   *)
(***************************************************************************)

\* ClearMtpSerialStateForLifecycle, for a step whose output names the request.
AfterClear_Stale(s, old, none) == old
AfterClear(s, old, none) == IF s.recompute THEN none ELSE old

\* WriteMtpSerialHostRingAfterGenerationState: an entry is kept unless the step
\* generated a token.
RingAfter_Emptied(old, a) ==
  [token |-> IF a.gen = <<>> THEN old.token ELSE a.gen[1], accepted |-> <<>>]
RingAfter(old, a) ==
  IF a.gen = <<>> THEN old ELSE [token |-> a.gen[1], accepted |-> a.acc]

\* Every step is reported, also a chunk that samples nothing.
Report_SamplesOnly(mid, a) == IF mid THEN results ELSE Append(results, a)
Report(mid, a) == Append(results, a)

HandleExecute(good) ==
  LET s == Head(dispatched)
      entry == AfterClear(s, host_ring, NoEntry)
      last == AfterClear(s, last_block, NoBlock)
      frozen == AfterClear(s, next_drafts, NoDrafts)
      cached == IF s.recompute THEN <<>> ELSE kv_cache
      q == Repair(s, entry, last, frozen)
      ctx == Context(s, q, cached)
      mid == s.kind = "prefill_chunk_mid"
      a == IF mid THEN NoAnswer ELSE Answer(ctx, q.draft_num, good)
  IN  /\ dispatched # <<>>
      /\ mid => good = 0
      /\ dispatched' = Tail(dispatched)
      /\ last_block' = IF q.repaired THEN [pos |-> q.kv, draft |-> q.draft_num]
                       ELSE last
      /\ kv_cache' = ctx
      /\ host_ring' = RingAfter(entry, a)
      /\ next_drafts' = IF ~mid THEN a.dr
                        ELSE IF q.repaired THEN NoDrafts ELSE frozen
      /\ exec_req' = [fwd |-> q.fwd, kv |-> q.kv, draft_num |-> q.draft_num,
                      draft_tokens |-> a.dr]
      /\ results' = Report(mid, a)
      /\ UNCHANGED <<vars, recompute_ids>>

\* A later output names the finished request in finish_req_ids.
ReleaseFinished ==
  /\ Finished
  /\ last_block # NoBlock \/ host_ring # NoEntry \/ next_drafts # NoDrafts
  /\ host_ring' = NoEntry
  /\ last_block' = NoBlock
  /\ next_drafts' = NoDrafts
  /\ UNCHANGED <<vars, recompute_ids, dispatched, results, exec_req, kv_cache>>

SerialIdle == Idle /\ UNCHANGED runner

SerialNext ==
  \/ Plan
  \/ LaunchScheduleOutput
  \/ \E good \in 0..MtpStepNum : HandleExecute(good)
  \/ UpdateWithGenerationResult
  \/ SerialStop
  \/ SyncRecompute
  \/ ReleaseFinished
  \/ SerialIdle

serial_vars == <<vars, runner>>

\* The Execute thread takes the next step; only HandleExecute does, and it can
\* whenever there is one.
TakeStep == dispatched # <<>> /\ dispatched' = Tail(dispatched)

\* Every thread keeps running: the scheduler, the Execute thread, the report.
SerialFairness ==
  /\ WF_serial_vars(Plan)
  /\ WF_serial_vars(LaunchScheduleOutput)
  /\ WF_dispatched(TakeStep)
  /\ WF_serial_vars(UpdateWithGenerationResult)
  /\ WF_serial_vars(SyncRecompute)

SerialSpec == SerialInit /\ [][SerialNext]_serial_vars /\ SerialFairness

-----------------------------------------------------------------------------
(***************************************************************************)
(* Correctness.                                                            *)
(***************************************************************************)

\* An answer before the newest one, or an answer the Engine took, ended the text.
TextHadEnded ==
  is_eos_generated \/ \E i \in 1..(Len(results) - 1) : results[i].len = eos

\* The executor never forwards a wrong token or a placeholder, and never from a
\* KV cache that holds the KV of a rejected draft as that of an accepted token:
\* up to the drafts, the sequence it forwarded last and the cache are the text
\* (the drift that mtp_serial_last_block_ is there to prevent).
ExecutorForwardsText ==
  ~TextHadEnded =>
    LET base == Len(exec_req.fwd) - exec_req.draft_num
    IN  /\ IsText(exec_req.fwd, base)
        /\ IsText(kv_cache, base)
        /\ \A i \in DOMAIN exec_req.fwd :
             exec_req.fwd[i] # kFastPathPlaceholderTokenId

\* Engine and executor cut rejected drafts independently, yet agree on where the
\* block is: when the answer of a placeholder step whose block the Engine has
\* filled is the only one on its way, the Engine's oldest block is the
\* executor's last one.
BlocksAgree ==
  /\ ~is_eos_generated
  /\ Len(results) = 1
  /\ Head(inflight_tasks).placeholder
  => last_block = Head(pending_placeholders)

\* The oracle of InferRequest can be replaced by this executor: its answers are
\* those of InferRequest, in the same order, none lost or given twice, and they
\* keep coming.
RefinesInferRequest == FairSpec

=============================================================================

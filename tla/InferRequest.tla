----------------------------- MODULE InferRequest -----------------------------
(***************************************************************************)
(* One request as the Engine sees it (runtime/infer_request.{h,cpp}): the  *)
(* in-flight queue of depth kMaxInflightDepth, the planning workload the   *)
(* scheduler turns into steps, the FIFO of placeholder blocks that         *)
(* build-ahead reserves in forwarding_tokens, and the way a finished step  *)
(* is folded back into the request.                                        *)
(*                                                                         *)
(* Tokens.  The text a request would produce if it were decoded one token  *)
(* at a time is taken to be 1, 2, 3, ...: the token at position p of the   *)
(* text IS the number p.  A draft token that verification would reject is  *)
(* the token Wrong, and a placeholder is the code's own -1.  So "the right *)
(* token in the right place" is simply s[p] = p.  Prompt and answer share  *)
(* one text, as output_tokens does in the code (it starts as the prompt).  *)
(*                                                                         *)
(* Indices.  The code counts from 0.  Lengths and kv_cached_token_num are  *)
(* the same numbers here; a 0-based index i is element i + 1.              *)
(***************************************************************************)
EXTENDS Integers, Sequences

CONSTANTS
  FastPath,      \* FastPathController::IsEnabledAtStartup()
  MtpStepNum,    \* number of draft tokens the executor proposes per step
  PromptLen,     \* length of the prompt
  EosPositions,  \* the positions at which the text may end with a stop token
  MaxRecompute,  \* how often block pressure may recompute the request (bound)
  Bubbles        \* TRUE: the request may be relaunched after its last in-flight
                 \* step was retired (a late scheduler, a recovered request);
                 \* FALSE: the next step is always launched ahead

ASSUME InferRequestAssumption ==
  /\ FastPath \in BOOLEAN
  /\ Bubbles \in BOOLEAN
  /\ MtpStepNum \in Nat
  /\ PromptLen \in Nat \ {0}
  /\ EosPositions \subseteq Nat
  /\ \A e \in EosPositions : e > PromptLen
  /\ MaxRecompute \in Nat

kFastPathPlaceholderTokenId == -1
Wrong == 0
kMaxInflightDepth == 2

\* The max_depth the scheduler launches with.
max_depth == IF FastPath THEN kMaxInflightDepth ELSE 1

VARIABLES
  output_tokens,               \* prompt and every token given to the client
  prefilling_tokens,           \* what prefill has to forward (a copy of output)
  forwarding_tokens,           \* the sequence the newest step forwards
  generated_tokens,            \* bonus token of the last retired step
  accepted_tokens,             \* accepted drafts of the last retired step
  draft_tokens,                \* drafts for the next step
  kv_cached_token_num,         \* tokens whose KV is cached
  forwarding_tokens_draft_num, \* drafts at the tail of forwarding_tokens
  infer_stage,                 \* "context" or "decode"
  inflight_tasks,              \* FIFO of launched steps, oldest first
  pending_placeholders,        \* FIFO of reserved blocks [main | draft x n]
  planning_task,               \* a planned step that is not launched yet
  planning_workload,           \* what the scheduler would plan now
  remaining_workload,          \* what is left to plan
  is_eos_generated,            \* a stop token was put into output_tokens
  is_stopped                   \* asynchronously stopped by the scheduler

\* The executor and the text, seen from the Engine (see Result).
VARIABLES
  eos,        \* position of the stop token in the text
  exec_len,   \* number of tokens of the text the executor has sampled
  exec_good,  \* how many of the executor's current drafts are right
  recomputes  \* number of recomputations so far

\* Everything but what planning and stopping change.
pipeline == <<output_tokens, prefilling_tokens, forwarding_tokens,
              generated_tokens, accepted_tokens, draft_tokens,
              kv_cached_token_num, forwarding_tokens_draft_num, infer_stage,
              inflight_tasks, pending_placeholders, is_eos_generated>>
request == <<pipeline, planning_task, planning_workload, remaining_workload,
             is_stopped>>
executor == <<eos, exec_len, exec_good, recomputes>>
vars == <<request, executor>>

-----------------------------------------------------------------------------
(***************************************************************************)
(* Workloads and helpers.                                                  *)
(***************************************************************************)

\* ScheduleTaskWorkload without sampling_token_num, which is only an output of
\* a launch (see Launched).
Workload == [prefill_token_num : Nat, prefill_start_offset : Nat,
             generated_token_num : Nat, draft_token_num : Nat]

PrefillWork(n, start) ==
  [prefill_token_num |-> n, prefill_start_offset |-> start,
   generated_token_num |-> 0, draft_token_num |-> 0]

DecodeWork(gen, draft) ==
  [prefill_token_num |-> 0, prefill_start_offset |-> 0,
   generated_token_num |-> gen, draft_token_num |-> draft]

NoWork == DecodeWork(0, 0)

GetTokenNum(w) == w.prefill_token_num + w.generated_token_num + w.draft_token_num
IsEmpty(w) == GetTokenNum(w) = 0

\* A planned step: its workload and the sequence length the scheduler saw for
\* it (GetPlanningSequenceLen), which is what it allocates KV blocks for.
NoTask == [workload |-> NoWork, planned_len |-> 0]

\* A launched step: its workload as the launch completed it, its kind, and the
\* length and KV length its snapshot carries to the executor.
StepKinds == {"prefill", "prefill_chunk_mid", "decode"}

Min2(a, b) == IF a <= b THEN a ELSE b
Upto(n) == [p \in 1..n |-> p]
Last(s) == s[Len(s)]
IsStopToken_Late(s) == Len(s) > 1 /\ s[Len(s) - 1] = eos
IsStopToken(s) == s # <<>> /\ Last(s) = eos

HasPlanningTask == ~IsEmpty(planning_task.workload)
HasInflightTask == inflight_tasks # <<>>

HasInflightCapacity_OneTooMany == Len(inflight_tasks) <= max_depth
HasInflightCapacity == Len(inflight_tasks) < max_depth

\* A block b is [pos, draft]: the 0-based index of its main token and the
\* number of draft slots behind it.
BlockEnd(b) == b.pos + 1 + b.draft

\* The tokens a launch reserves for n drafts: the main slot and the draft slots.
PlaceholderBlock_NoMain(n) == [i \in 1..n |-> kFastPathPlaceholderTokenId]
PlaceholderBlock(n) == [i \in 1..(1 + n) |-> kFastPathPlaceholderTokenId]

\* A block after trimmed tokens of block b were cut out in front of it.
Shifted_Stale(p, b, trimmed) == p
Shifted(p, b, trimmed) ==
  IF p.pos > b.pos THEN [p EXCEPT !.pos = @ - trimmed] ELSE p

\* The number of tokens up to block b's main token and n accepted drafts.
VerifiedLen_NoMain(b, n) == b.pos + n
VerifiedLen(b, n) == b.pos + 1 + n

\* Write main and as many drafts as fit into block b of sequence s.
FillBlock(s, b, main, drafts) ==
  [i \in DOMAIN s |->
     IF i = b.pos + 1 THEN main
     ELSE IF i > b.pos + 1 /\ i <= b.pos + 1 + Min2(b.draft, Len(drafts))
          THEN drafts[i - b.pos - 1]
          ELSE s[i]]

\* std::vector::resize
Resize(s, n) == [i \in 1..n |-> IF i <= Len(s) THEN s[i] ELSE 0]

\* Where the prompt chunk of workload w ends.
ChunkEnd(w) == w.prefill_start_offset + w.prefill_token_num

\* The length for which the scheduler asks the block manager when it is about
\* to plan workload w.
GetPlanningSequenceLen_FwdOnly(w) == Len(forwarding_tokens)
GetPlanningSequenceLen(w) ==
  LET fwd_len == Len(forwarding_tokens)
      planning_len == GetTokenNum(w)
      back == Last(pending_placeholders)
  IN  IF w.prefill_token_num > 0
        THEN w.prefill_start_offset + planning_len
      ELSE IF /\ planning_len > 0
              /\ pending_placeholders # <<>>
              /\ BlockEnd(back) = fwd_len
              /\ planning_len <= 1 + back.draft
        THEN fwd_len
      ELSE fwd_len + planning_len

\* The oldest step is a prefill chunk that does not end the prompt.
IsSplitPrefillStep ==
  /\ HasInflightTask
  /\ LET w == Head(inflight_tasks).workload
     IN  /\ w.prefill_token_num > 0
         /\ w.prefill_token_num + w.prefill_start_offset < Len(prefilling_tokens)

-----------------------------------------------------------------------------
(***************************************************************************)
(* ResetPrefillingTokens: a new or a recomputed request.                   *)
(***************************************************************************)

Init ==
  /\ output_tokens = Upto(PromptLen)
  /\ prefilling_tokens = Upto(PromptLen)
  /\ forwarding_tokens = <<>>
  /\ generated_tokens = <<>>
  /\ accepted_tokens = <<>>
  /\ draft_tokens = <<>>
  /\ kv_cached_token_num = 0
  /\ forwarding_tokens_draft_num = 0
  /\ infer_stage = "context"
  /\ inflight_tasks = <<>>
  /\ pending_placeholders = <<>>
  /\ planning_task = NoTask
  /\ planning_workload = PrefillWork(PromptLen, 0)
  /\ remaining_workload = PrefillWork(PromptLen, 0)
  /\ is_eos_generated = FALSE
  /\ is_stopped = FALSE
  /\ eos \in EosPositions
  /\ exec_len = PromptLen
  /\ exec_good = 0
  /\ recomputes = 0

ResetPrefillingTokens ==
  /\ prefilling_tokens' = output_tokens
  /\ forwarding_tokens' = <<>>
  /\ generated_tokens' = <<>>
  /\ accepted_tokens' = <<>>
  /\ draft_tokens' = <<>>
  /\ kv_cached_token_num' = 0
  /\ forwarding_tokens_draft_num' = 0
  /\ infer_stage' = "context"
  /\ inflight_tasks' = <<>>
  /\ pending_placeholders' = <<>>
  /\ planning_task' = NoTask
  /\ planning_workload' = PrefillWork(Len(output_tokens), 0)
  /\ remaining_workload' = PrefillWork(Len(output_tokens), 0)
  /\ is_eos_generated' = FALSE
  /\ UNCHANGED output_tokens

-----------------------------------------------------------------------------
(***************************************************************************)
(* Planning.  The scheduling strategy is not in the repository; it drives  *)
(* the request through SetRemainingWorkload, SetPlanningWorkload,          *)
(* SetInflightTaskGenResultEstimation and SetPlanningTask.                 *)
(***************************************************************************)

CanPlan == ~is_stopped /\ ~is_eos_generated /\ ~HasPlanningTask

\* The first n tokens are already in the prefix cache: the strategy sets the
\* workload to the rest of the prompt.
PrefixCacheHit(n) ==
  /\ CanPlan
  /\ ~HasInflightTask
  /\ forwarding_tokens = <<>>
  /\ remaining_workload = PrefillWork(Len(prefilling_tokens), 0)
  /\ n < Len(prefilling_tokens)
  /\ remaining_workload' = PrefillWork(Len(prefilling_tokens) - n, n)
  /\ planning_workload' = remaining_workload'
  /\ UNCHANGED <<pipeline, planning_task, is_stopped, executor>>

\* A decode step may be planned before the step in flight has told how many
\* tokens it generates: the scheduler estimates one token and n drafts.
SetInflightTaskGenResultEstimation(n) ==
  /\ CanPlan
  /\ HasInflightTask
  /\ remaining_workload.prefill_token_num = 0
  /\ IsEmpty(planning_workload)
  /\ planning_workload' = [planning_workload EXCEPT
                             !.generated_token_num = 1, !.draft_token_num = n]
  /\ remaining_workload' = [remaining_workload EXCEPT
                             !.generated_token_num = 1, !.draft_token_num = n]
  /\ UNCHANGED <<pipeline, planning_task, is_stopped, executor>>

\* What is left of the prompt once w is planned.
RestOfPrompt_SameOffset(w) ==
  PrefillWork(remaining_workload.prefill_token_num - w.prefill_token_num,
              remaining_workload.prefill_start_offset)
RestOfPrompt(w) ==
  PrefillWork(remaining_workload.prefill_token_num - w.prefill_token_num,
              remaining_workload.prefill_start_offset + w.prefill_token_num)

\* Turn workload w into the planned step.
SetPlanningTask(w) ==
  /\ CanPlan
  /\ w.prefill_token_num <= remaining_workload.prefill_token_num
  /\ planning_task' = [workload |-> w, planned_len |-> GetPlanningSequenceLen(w)]
  /\ remaining_workload' = RestOfPrompt(w)
  /\ planning_workload' = NoWork
  /\ UNCHANGED <<pipeline, is_stopped, executor>>

\* Plan the next chunk of the prompt (SetPlanningWorkload, SetPlanningTask).
PlanPrefill(n) ==
  /\ remaining_workload.prefill_token_num > 0
  /\ SetPlanningTask(PrefillWork(n, remaining_workload.prefill_start_offset))

PlanDecode ==
  /\ remaining_workload.prefill_token_num = 0
  /\ ~IsEmpty(planning_workload)
  /\ SetPlanningTask(planning_workload)

-----------------------------------------------------------------------------
(***************************************************************************)
(* LaunchPlanningTask: the planned step is appended to the in-flight queue *)
(* and forwarding_tokens becomes the sequence it forwards.                 *)
(***************************************************************************)

\* The in-flight entry for a step of workload w that forwards fwd from kv on.
Launched(w, kind, fwd, kv, ph) ==
  [workload |-> w, kind |-> kind,
   sampling_token_num |-> IF kind = "prefill_chunk_mid" THEN 0
                          ELSE 1 + w.draft_token_num,
   planned_len |-> planning_task.planned_len,
   len |-> Len(fwd), kv |-> kv, placeholder |-> ph]

LaunchPrefill ==
  LET w == planning_task.workload
      n == w.prefill_token_num + w.prefill_start_offset
      contiguous == Len(forwarding_tokens) = w.prefill_start_offset
      last_chunk == n >= Len(prefilling_tokens)
      prefix == IF contiguous THEN forwarding_tokens
                ELSE SubSeq(prefilling_tokens, 1, w.prefill_start_offset)
      fwd == prefix \o SubSeq(prefilling_tokens, w.prefill_start_offset + 1, n)
             \o IF last_chunk THEN draft_tokens ELSE <<>>
      done == IF last_chunk
                THEN [w EXCEPT !.draft_token_num = Len(draft_tokens)] ELSE w
      kind == IF last_chunk THEN "prefill" ELSE "prefill_chunk_mid"
  IN  /\ w.prefill_token_num > 0
      /\ forwarding_tokens' = fwd
      /\ kv_cached_token_num' = Len(prefix)
      /\ forwarding_tokens_draft_num' = done.draft_token_num
      /\ inflight_tasks' =
           Append(inflight_tasks, Launched(done, kind, fwd, Len(prefix), FALSE))
      /\ UNCHANGED <<draft_tokens, pending_placeholders>>

\* Decode with the true last token still unknown to the Engine.
ReserveBuildAheadPlaceholderBlock ==
  LET w == planning_task.workload
      fwd == forwarding_tokens \o PlaceholderBlock(w.draft_token_num)
      done == DecodeWork(1, w.draft_token_num)
      kv == Len(forwarding_tokens)
  IN  /\ FastPath /\ HasInflightTask /\ generated_tokens = <<>>
      /\ forwarding_tokens' = fwd
      /\ kv_cached_token_num' = kv
      /\ forwarding_tokens_draft_num' = w.draft_token_num
      /\ pending_placeholders' =
           Append(pending_placeholders, [pos |-> kv, draft |-> w.draft_token_num])
      /\ inflight_tasks' =
           Append(inflight_tasks, Launched(done, "decode", fwd, kv, TRUE))
      /\ UNCHANGED draft_tokens

\* Decode with the tokens the last retired step left in the request.
AppendDecodeTokensWithoutPlaceholder ==
  LET w == planning_task.workload
      ready == w.generated_token_num + w.draft_token_num - Len(generated_tokens)
      drafts == SubSeq(draft_tokens, 1, Min2(ready, Len(draft_tokens)))
      fwd == forwarding_tokens \o generated_tokens \o drafts
      done == DecodeWork(Len(generated_tokens), Len(drafts))
      kv == Len(forwarding_tokens)
  IN  /\ ~(FastPath /\ HasInflightTask /\ generated_tokens = <<>>)
      /\ Len(generated_tokens) <= w.generated_token_num + w.draft_token_num
      /\ forwarding_tokens' = fwd
      /\ kv_cached_token_num' = kv
      /\ forwarding_tokens_draft_num' = Len(drafts)
      /\ draft_tokens' = drafts
      /\ inflight_tasks' =
           Append(inflight_tasks, Launched(done, "decode", fwd, kv, FALSE))
      /\ UNCHANGED pending_placeholders

LaunchPlanningTask ==
  /\ ~is_stopped
  /\ HasPlanningTask
  /\ HasInflightCapacity
  /\ \/ LaunchPrefill
     \/ /\ planning_task.workload.prefill_token_num = 0
        /\ \/ ReserveBuildAheadPlaceholderBlock
           \/ AppendDecodeTokensWithoutPlaceholder
  /\ planning_task' = NoTask
  /\ UNCHANGED <<output_tokens, prefilling_tokens, generated_tokens,
                 accepted_tokens, infer_stage, planning_workload,
                 remaining_workload, is_eos_generated, is_stopped, executor>>

-----------------------------------------------------------------------------
(***************************************************************************)
(* UpdateAfterInflightTaskFinished and ResetInflightTask: the oldest step  *)
(* comes back with the bonus token gen, the accepted drafts acc and the    *)
(* drafts dr it proposes for the next step.  The five cases exclude each   *)
(* other, in the order of the code.                                        *)
(***************************************************************************)

\* The block at the head is still empty and its step is not the one retiring.
BackfillsNext_EvenIfFilled == Len(inflight_tasks) > 1
BackfillsNext ==
  /\ Len(inflight_tasks) > 1
  /\ Head(pending_placeholders).pos < Len(forwarding_tokens)
  /\ forwarding_tokens[Head(pending_placeholders).pos + 1]
       = kFastPathPlaceholderTokenId

PendingAfterEos_Kept == pending_placeholders
PendingAfterEos ==
  IF pending_placeholders = <<>> THEN <<>> ELSE Tail(pending_placeholders)

\* A step that was launched before the stop token was known: its tokens are
\* dropped.
RetireAfterEos ==
  /\ is_eos_generated
  /\ generated_tokens' = <<>>
  /\ accepted_tokens' = <<>>
  /\ draft_tokens' = <<>>
  /\ pending_placeholders' = PendingAfterEos
  /\ UNCHANGED <<output_tokens, forwarding_tokens, kv_cached_token_num,
                 forwarding_tokens_draft_num, infer_stage, planning_workload,
                 remaining_workload, is_eos_generated>>

\* The workload the scheduler sees next: the rest of the prompt, or else the
\* tokens that just came back.
PlanningAfter_PrefillOnly(gen, dr) ==
  PrefillWork(remaining_workload.prefill_token_num, 0)
PlanningAfter(gen, dr) ==
  IF remaining_workload.prefill_token_num > 0
    THEN PrefillWork(remaining_workload.prefill_token_num, 0)
    ELSE DecodeWork(Len(gen), Len(dr))

\* A chunk that only filled the KV cache.
RetireSplitPrefill(acc) ==
  /\ ~is_eos_generated
  /\ IsSplitPrefillStep
  /\ generated_tokens' = <<>>
  /\ accepted_tokens' = acc
  /\ draft_tokens' = <<>>
  /\ kv_cached_token_num' = Len(forwarding_tokens)
  /\ remaining_workload' = [remaining_workload EXCEPT
                              !.generated_token_num = 0, !.draft_token_num = 0]
  /\ planning_workload' = PlanningAfter(<<>>, <<>>)
  /\ UNCHANGED <<output_tokens, forwarding_tokens, forwarding_tokens_draft_num,
                 infer_stage, pending_placeholders, is_eos_generated>>

\* The trimmed sequence when the retiring step owns block b: its main token,
\* its accepted drafts, and everything behind the block.
TrimBlock_KeepRejected(b, acc) == forwarding_tokens
TrimBlock(b, acc) ==
  SubSeq(forwarding_tokens, 1, b.pos + 1) \o acc
    \o SubSeq(forwarding_tokens, BlockEnd(b) + 1, Len(forwarding_tokens))

\* What every retirement of a sampling step does to the workloads.
NewDecodeWork(gen, dr) ==
  /\ planning_workload' = DecodeWork(Len(gen), Len(dr))
  /\ remaining_workload' = [remaining_workload EXCEPT
                              !.generated_token_num = Len(gen),
                              !.draft_token_num = Len(dr)]

\* The oldest block belongs to the step behind the one that retires: give it
\* its tokens.
TryRetireBackfillNextPlaceholderBlock(gen, acc, dr) ==
  LET b == Head(pending_placeholders)
  IN  /\ ~is_eos_generated /\ ~IsSplitPrefillStep
      /\ pending_placeholders # <<>>
      /\ BackfillsNext
      /\ BlockEnd(b) <= Len(forwarding_tokens)
      /\ infer_stage' = "decode"
      /\ forwarding_tokens' =
           IF gen = <<>> THEN forwarding_tokens
           ELSE FillBlock(forwarding_tokens, b, gen[1], dr)
      /\ output_tokens' = output_tokens \o gen
      /\ is_eos_generated' = IsStopToken(output_tokens')
      /\ NewDecodeWork(gen, dr)
      /\ generated_tokens' = <<>>
      /\ accepted_tokens' = acc
      /\ draft_tokens' = dr
      /\ UNCHANGED <<kv_cached_token_num, forwarding_tokens_draft_num,
                     pending_placeholders>>

\* The oldest block is the retiring step's own: cut its rejected drafts, move
\* the blocks behind it, and give the next block its tokens.
RetireOwnPlaceholderBlockAndShift(gen, acc, dr) ==
  LET b == Head(pending_placeholders)
      trimmed == b.draft - Len(acc)
      rest == [i \in 1..(Len(pending_placeholders) - 1) |->
                 Shifted(pending_placeholders[i + 1], b, trimmed)]
      kept == TrimBlock(b, acc)
      kv == VerifiedLen(b, Len(acc))
  IN  /\ ~is_eos_generated /\ ~IsSplitPrefillStep
      /\ pending_placeholders # <<>>
      /\ ~BackfillsNext
      /\ Len(acc) <= b.draft
      /\ BlockEnd(b) <= Len(forwarding_tokens)
      /\ infer_stage' = "decode"
      /\ pending_placeholders' = rest
      /\ forwarding_tokens' =
           IF rest # <<>> /\ gen # <<>> THEN FillBlock(kept, rest[1], gen[1], dr)
           ELSE kept
      /\ output_tokens' = output_tokens \o acc \o gen
      /\ is_eos_generated' = IsStopToken(output_tokens')
      /\ kv_cached_token_num' = kv
      /\ forwarding_tokens_draft_num' =
           IF Len(kept) > kv + 1 THEN Len(kept) - kv - 1 ELSE 0
      /\ NewDecodeWork(gen, dr)
      /\ generated_tokens' = <<>>
      /\ accepted_tokens' = <<>>
      /\ draft_tokens' = dr

\* No placeholder block is pending: the slow path, and the last prefill chunk.
RetireWithoutPlaceholder(gen, acc, dr) ==
  LET verified == Head(inflight_tasks).workload.draft_token_num > 0
      fwd == IF verified
               THEN Resize(forwarding_tokens, Len(forwarding_tokens)
                             - forwarding_tokens_draft_num + Len(acc))
               ELSE forwarding_tokens
  IN  /\ ~is_eos_generated /\ ~IsSplitPrefillStep
      /\ pending_placeholders = <<>>
      /\ infer_stage' = "decode"
      /\ forwarding_tokens' = fwd
      /\ output_tokens' = output_tokens \o (IF verified THEN acc ELSE <<>>) \o gen
      /\ is_eos_generated' = IsStopToken(output_tokens')
      /\ accepted_tokens' = IF verified THEN <<>> ELSE acc
      /\ generated_tokens' = gen
      /\ draft_tokens' = dr
      /\ kv_cached_token_num' = Len(fwd)
      /\ remaining_workload' = [remaining_workload EXCEPT
                                  !.generated_token_num = Len(gen),
                                  !.draft_token_num = Len(dr)]
      /\ planning_workload' = PlanningAfter(gen, dr)
      /\ UNCHANGED <<forwarding_tokens_draft_num, pending_placeholders>>

Retire(gen, acc, dr) ==
  /\ HasInflightTask
  /\ \/ RetireAfterEos
     \/ RetireSplitPrefill(acc)
     \/ TryRetireBackfillNextPlaceholderBlock(gen, acc, dr)
     \/ RetireOwnPlaceholderBlockAndShift(gen, acc, dr)
     \/ RetireWithoutPlaceholder(gen, acc, dr)
  /\ inflight_tasks' = Tail(inflight_tasks)
  /\ UNCHANGED <<prefilling_tokens, planning_task>>

-----------------------------------------------------------------------------
(***************************************************************************)
(* The executor, reduced to what it answers: it runs the steps in order, a *)
(* verified step accepts exactly the right drafts it was given room for    *)
(* and adds one token, and the answer is cut behind a stop token.          *)
(***************************************************************************)

Drafts(len, good) ==
  [i \in 1..MtpStepNum |-> IF i <= good THEN len + i ELSE Wrong]

Samples(t) == t.sampling_token_num > 0

Verified(t) == Min2(exec_good, t.workload.draft_token_num)

\* Length of the text after step t.
SampledLen(t) ==
  LET full == exec_len + Verified(t) + 1
  IN  IF exec_len < eos /\ eos <= full THEN eos ELSE full

Accepted(t) ==
  [i \in 1..Min2(Verified(t), SampledLen(t) - exec_len) |-> exec_len + i]

Bonus(t) ==
  IF SampledLen(t) = exec_len + Verified(t) + 1 THEN <<SampledLen(t)>> ELSE <<>>

\* The oldest step comes back; good of the drafts proposed next will turn out
\* to be right.  What a step behind the stop token sampled does not matter.  The
\* strategy stops a request that has generated its stop token under the same
\* lock, so that a step already planned for it is dropped.
FinishStep(good) ==
  LET t == Head(inflight_tasks)
  IN  /\ HasInflightTask
      /\ IF Samples(t) /\ ~is_eos_generated
           THEN /\ Retire(Bonus(t), Accepted(t), Drafts(SampledLen(t), good))
                /\ exec_len' = SampledLen(t)
                /\ exec_good' = good
           ELSE /\ good = 0
                /\ Retire(<<>>, <<>>, <<>>)
                /\ UNCHANGED <<exec_len, exec_good>>
      /\ is_stopped' = (is_stopped \/ is_eos_generated')
      /\ UNCHANGED <<eos, recomputes>>

\* Without bubbles the last in-flight sampling step comes back only after the
\* next one was launched behind it, unless the request is ending or stopped.
LaunchedAhead ==
  \/ Bubbles \/ ~FastPath
  \/ Len(inflight_tasks) = max_depth
  \/ is_eos_generated \/ is_stopped
  \/ IsSplitPrefillStep

-----------------------------------------------------------------------------
(***************************************************************************)
(* Block pressure.  The strategy stops a decoding request asynchronously;  *)
(* once its steps have drained it is either recomputed from its output or  *)
(* (RecoverAsyncRecomputedRequests) put back to decode.                    *)
(***************************************************************************)

MayRecover == Bubbles \/ ~FastPath

Stop ==
  /\ ~is_stopped /\ ~is_eos_generated
  /\ HasInflightTask
  /\ remaining_workload.prefill_token_num = 0
  /\ planning_task.workload.prefill_token_num = 0
  /\ \A i \in DOMAIN inflight_tasks : inflight_tasks[i].kind = "decode"
  /\ recomputes < MaxRecompute
  /\ is_stopped' = TRUE
  /\ UNCHANGED <<pipeline, planning_task, planning_workload,
                 remaining_workload, executor>>

Recompute ==
  /\ is_stopped /\ ~is_eos_generated
  /\ ~HasInflightTask
  /\ ResetPrefillingTokens
  /\ is_stopped' = FALSE
  /\ exec_len' = Len(output_tokens)
  /\ exec_good' = 0
  /\ recomputes' = recomputes + 1
  /\ UNCHANGED eos

Recover ==
  /\ MayRecover
  /\ is_stopped /\ ~is_eos_generated
  /\ ~HasInflightTask
  /\ is_stopped' = FALSE
  /\ planning_task' = NoTask
  /\ recomputes' = recomputes + 1
  /\ UNCHANGED <<pipeline, planning_workload, remaining_workload,
                 eos, exec_len, exec_good>>

\* The request is finished: the stop token is out and nothing is in flight.
Finished == is_eos_generated /\ ~HasInflightTask

Idle == Finished /\ UNCHANGED vars

-----------------------------------------------------------------------------

Next ==
  \/ \E n \in 1..Len(prefilling_tokens) : PrefixCacheHit(n)
  \/ \E n \in 0..MtpStepNum : SetInflightTaskGenResultEstimation(n)
  \/ \E n \in 1..Len(prefilling_tokens) : PlanPrefill(n)
  \/ PlanDecode
  \/ LaunchPlanningTask
  \/ LaunchedAhead /\ \E good \in 0..MtpStepNum : FinishStep(good)
  \/ Stop
  \/ Recompute
  \/ Recover
  \/ Idle

\* The scheduler thread keeps planning and launching, the executor keeps
\* answering, and a stopped request is eventually resumed.
Fairness ==
  /\ WF_vars(\E n \in 1..Len(prefilling_tokens) : PlanPrefill(n))
  /\ WF_vars(PlanDecode)
  /\ WF_vars(\E n \in 0..MtpStepNum : SetInflightTaskGenResultEstimation(n))
  /\ WF_vars(LaunchPlanningTask)
  /\ WF_vars(LaunchedAhead /\ \E good \in 0..MtpStepNum : FinishStep(good))
  /\ WF_vars(Recompute \/ Recover)

Spec == Init /\ [][Next]_vars
FairSpec == Spec /\ Fairness

-----------------------------------------------------------------------------
(***************************************************************************)
(* Correctness.                                                            *)
(***************************************************************************)

Token == Int

PlannedTask == [workload : Workload, planned_len : Nat]

InflightTask == [workload : Workload, kind : StepKinds,
                 sampling_token_num : Nat, planned_len : Nat,
                 len : Nat, kv : Nat, placeholder : BOOLEAN]

Block == [pos : Nat, draft : Nat]

TokensTyped ==
  /\ output_tokens \in Seq(Token)
  /\ prefilling_tokens \in Seq(Token)
  /\ forwarding_tokens \in Seq(Token)
  /\ generated_tokens \in Seq(Token)
  /\ accepted_tokens \in Seq(Token)
  /\ draft_tokens \in Seq(Token)

QueuesTyped ==
  /\ inflight_tasks \in Seq(InflightTask)
  /\ Len(inflight_tasks) <= max_depth
  /\ pending_placeholders \in Seq(Block)

WorkTyped ==
  /\ planning_task \in PlannedTask
  /\ planning_workload \in Workload
  /\ remaining_workload \in Workload

ScalarsTyped ==
  /\ kv_cached_token_num \in Nat
  /\ forwarding_tokens_draft_num \in Nat
  /\ infer_stage \in {"context", "decode"}
  /\ is_eos_generated \in BOOLEAN
  /\ is_stopped \in BOOLEAN
  /\ eos \in EosPositions
  /\ exec_len \in Nat
  /\ exec_good \in Nat
  /\ recomputes \in 0..MaxRecompute

\* The in-flight queue is never deeper than the launch depth of its mode, and
\* every field of the request has its type.
TypeOK == TokensTyped /\ QueuesTyped /\ WorkTyped /\ ScalarsTyped

\* The deque of placeholder blocks and the in-flight queue never get out of
\* step: the blocks belong, in order, to the newest steps in flight, every
\* block is exactly as long as its step was launched, the blocks are adjacent
\* and the last one ends forwarding_tokens (the hazard of the two FIFOs in
\* UpdateAfterInflightTaskFinished and ResetInflightTask being popped apart,
\* above all when a stop token was sampled with a step behind it).
PlaceholderFifo ==
  LET k == Len(pending_placeholders)
      first == Len(inflight_tasks) - k
  IN  /\ first >= 0
      /\ \A i \in 1..Len(inflight_tasks) :
           inflight_tasks[i].placeholder <=> i > first
      /\ \A i \in 1..k :
           pending_placeholders[i].draft
             = inflight_tasks[first + i].workload.draft_token_num
      /\ \A i \in 1..k :
           BlockEnd(pending_placeholders[i]) =
             IF i = k THEN Len(forwarding_tokens) ELSE pending_placeholders[i + 1].pos

\* The chunks of a prompt tile it: the chunks in flight, the planned chunk and
\* the remaining workload follow each other without a gap or an overlap up to
\* the end of the prompt, and the chunk a step forwards ends the sequence it
\* forwards (the KLLM_CHECK at the end of SetPlanningTask, with two chunks in
\* flight and after prefix cache hits and recomputations).
PromptPartition ==
  LET IsChunk(w) == w.prefill_token_num > 0
      planned == planning_task.workload
  IN  /\ ChunkEnd(remaining_workload) = Len(prefilling_tokens)
      /\ IsChunk(planned) =>
           /\ ChunkEnd(planned) = remaining_workload.prefill_start_offset
           /\ HasInflightTask => planned.prefill_start_offset
                                   = ChunkEnd(Last(inflight_tasks).workload)
      /\ \A i \in DOMAIN inflight_tasks :
           LET t == inflight_tasks[i]
           IN  IsChunk(t.workload) =>
                 /\ t.len = ChunkEnd(t.workload) + t.workload.draft_token_num
                 /\ t.kv = t.workload.prefill_start_offset
                 /\ i > 1 => t.workload.prefill_start_offset
                               = ChunkEnd(inflight_tasks[i - 1].workload)

\* No token is lost, repeated, reordered or invented on its way to the client,
\* and nothing follows the stop token (output_tokens after any mix of the five
\* ways a step can retire).
OutputIsText ==
  /\ output_tokens = Upto(Len(output_tokens))
  /\ Len(output_tokens) <= eos
  /\ is_eos_generated <=> Len(output_tokens) = eos

\* How much of forwarding_tokens is settled: up to the main token of the first
\* block once that is filled, up to the drafts of the newest step otherwise.
Settled ==
  IF pending_placeholders # <<>>
    THEN LET b == Head(pending_placeholders)
         IN  IF forwarding_tokens[b.pos + 1] = kFastPathPlaceholderTokenId
               THEN b.pos ELSE b.pos + 1
  ELSE IF HasInflightTask
    THEN Len(forwarding_tokens) - forwarding_tokens_draft_num
  ELSE Len(forwarding_tokens)

\* What the request will forward agrees with what it told the client: the
\* settled part of forwarding_tokens is the text, and between two decode steps
\* it reaches the last token of output_tokens or stops one token short of it.
\* (So a drained request holds no placeholder: every block was filled or cut.)
\* In the second case, unless the request was stopped, the missing bonus token
\* is in generated_tokens, from where the next launch appends it.
ForwardingIsText ==
  ~is_eos_generated =>
    /\ \A i \in 1..Settled : forwarding_tokens[i] = i
    /\ pending_placeholders # <<>> /\ Settled > Head(pending_placeholders).pos
         => Settled = Len(output_tokens)
    /\ infer_stage = "decode" /\ ~HasInflightTask
         => /\ kv_cached_token_num = Len(forwarding_tokens)
            /\ Len(forwarding_tokens) = Len(output_tokens) - 1
            /\ ~is_stopped => generated_tokens = <<Last(output_tokens)>>

\* The two asserts at the end of LaunchPlanningTask: a launched step has work,
\* and its sequence is longer than what is already cached (no q_len = 0).
LaunchedStepsHaveWork ==
  \A i \in DOMAIN inflight_tasks :
    /\ GetTokenNum(inflight_tasks[i].workload) > 0
    /\ inflight_tasks[i].len > inflight_tasks[i].kv

\* The length the scheduler allocates KV blocks for covers the sequence that
\* the planned step then forwards.
PlanningLenCoversLaunch ==
  \A i \in DOMAIN inflight_tasks :
    inflight_tasks[i].planned_len >= inflight_tasks[i].len

\* kv_cached_token_num never points into a placeholder block: while blocks are
\* pending it is where one of them starts, whether it was set by a launch or by
\* the retirement that trimmed the block before it.
KvAtBlockStart ==
  pending_placeholders # <<>> /\ ~is_eos_generated =>
    \E i \in DOMAIN pending_placeholders :
      kv_cached_token_num = pending_placeholders[i].pos

\* The engine refines the slow path's promise.
Client == INSTANCE Decode WITH
  text <- output_tokens, stop <- eos, MaxEmit <- 1 + MtpStepNum

RefinesDecode == Client!Spec

\* A request that is scheduled is finished eventually.
EventuallyFinished == <>[]Finished

=============================================================================

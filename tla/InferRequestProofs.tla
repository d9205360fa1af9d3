-------------------------- MODULE InferRequestProofs --------------------------
(***************************************************************************)
(* Theorems about InferRequest, for every prompt, every number of drafts   *)
(* and both launch depths.  The first part is about types and layout, the  *)
(* second about the text: what the client of a request receives is the     *)
(* text, whatever the scheduler and the executor do.                       *)
(***************************************************************************)
EXTENDS InferRequest, SequenceTheorems, TLAPS

-----------------------------------------------------------------------------
(***************************************************************************)
(* Sequences.                                                              *)
(***************************************************************************)

\* A function on 1..n is a sequence, also when n is not positive.
LEMMA FunctionIsSeq ==
  ASSUME NEW S, NEW n \in Int, NEW f, f = [i \in 1..n |-> f[i]],
         \A i \in 1..n : f[i] \in S
  PROVE  /\ f \in Seq(S)
         /\ n >= 0 => Len(f) = n
<1>1. CASE n >= 0
  <2>1. n \in Nat
    BY <1>1
  <2>2. f \in [1..n -> S]
    OBVIOUS
  <2>3. QED
    BY <2>1, <2>2
<1>2. CASE ~(n >= 0)
  <2>1. 1..n = 1..0
    BY <1>2
  <2>2. f \in [1..0 -> S]
    BY <2>1
  <2>3. f \in Seq(S)
    BY <2>2
  <2>4. QED
    BY <1>2, <2>3
<1>3. QED
  BY <1>1, <1>2

\* Type and length of a concatenation.
LEMMA ConcatLen ==
  ASSUME NEW S, NEW s \in Seq(S), NEW t \in Seq(S)
  PROVE  s \o t \in Seq(S) /\ Len(s \o t) = Len(s) + Len(t)
BY ConcatProperties

\* What Resize returns.
LEMMA ResizeType ==
  ASSUME NEW s \in Seq(Token), NEW n \in Int
  PROVE  Resize(s, n) \in Seq(Token)
<1>1. \A i \in 1..n : Resize(s, n)[i] \in Token
  BY DEF Resize, Token
<1>2. Resize(s, n) = [i \in 1..n |-> Resize(s, n)[i]]
  BY DEF Resize
<1>3. QED
  BY <1>1, <1>2, FunctionIsSeq

\* Filling a block changes tokens, never the length.
LEMMA FillBlockType ==
  ASSUME NEW s \in Seq(Token), NEW b \in Block, NEW main \in Token,
         NEW drafts \in Seq(Token)
  PROVE  FillBlock(s, b, main, drafts) \in Seq(Token)
         /\ Len(FillBlock(s, b, main, drafts)) = Len(s)
<1> DEFINE f == FillBlock(s, b, main, drafts)
<1>1. DOMAIN s = 1..Len(s) /\ Len(s) \in Nat
  OBVIOUS
<1>2. ASSUME NEW i \in 1..Len(s) PROVE f[i] \in Token
  <2>1. /\ b.pos \in Nat /\ b.draft \in Nat /\ main \in Token
        /\ Len(drafts) \in Nat /\ s[i] \in Token
    BY <1>1 DEF Block
  <2> DEFINE inside == i > b.pos + 1 /\ i <= b.pos + 1 + Min2(b.draft, Len(drafts))
  <2>2. f[i] = IF i = b.pos + 1 THEN main
               ELSE IF inside THEN drafts[i - b.pos - 1] ELSE s[i]
    BY <1>1 DEF FillBlock
  <2>3. inside => i - b.pos - 1 \in 1..Len(drafts)
    BY <1>1, <2>1 DEF Min2
  <2>4. inside => drafts[i - b.pos - 1] \in Token
    BY <2>3
  <2> QED BY <2>1, <2>2, <2>4
<1>3. f = [i \in 1..Len(s) |-> f[i]]
  BY <1>1 DEF FillBlock
<1> HIDE DEF f
<1>4. QED
  BY <1>1, <1>2, <1>3, FunctionIsSeq DEF f

\* What a block's two numbers are.
LEMMA BlockFields ==
  ASSUME NEW b \in Block
  PROVE  \E p, d \in Nat : b.pos = p /\ b.draft = d /\ BlockEnd(b) = p + 1 + d
BY DEF Block, BlockEnd

\* A trimmed sequence is a sequence, shorter by the drafts that were rejected.
LEMMA TrimBlockType ==
  ASSUME NEW b \in Block, NEW acc \in Seq(Token),
         forwarding_tokens \in Seq(Token),
         BlockEnd(b) <= Len(forwarding_tokens), Len(acc) <= b.draft
  PROVE  TrimBlock(b, acc) \in Seq(Token)
         /\ Len(TrimBlock(b, acc))
              = Len(forwarding_tokens) - (b.draft - Len(acc))
<1>1. PICK p, d \in Nat : b.pos = p /\ b.draft = d /\ BlockEnd(b) = p + 1 + d
  BY BlockFields
<1> DEFINE front == SubSeq(forwarding_tokens, 1, p + 1)
           back == SubSeq(forwarding_tokens, p + 1 + d + 1,
                          Len(forwarding_tokens))
           kept == front \o acc
<1>2. p + 1 + d <= Len(forwarding_tokens) /\ Len(acc) <= d
  BY <1>1
<1>3. front \in Seq(Token) /\ Len(front) = p + 1
  <2>1. \A i \in 1..(p + 1) : forwarding_tokens[i] \in Token
    BY <1>2, ElementOfSeq
  <2>2. QED
    BY <2>1, SubSeqProperties
<1>4. back \in Seq(Token)
      /\ Len(back) = Len(forwarding_tokens) - (p + 1 + d)
  <2>1. \A i \in (p + 1 + d + 1)..Len(forwarding_tokens) :
          forwarding_tokens[i] \in Token
    BY ElementOfSeq
  <2>2. QED
    BY <1>2, <2>1, SubSeqProperties
<1>5. TrimBlock(b, acc) = kept \o back
  BY <1>1 DEF TrimBlock
<1> HIDE DEF front, back
<1>6. kept \in Seq(Token) /\ Len(kept) = p + 1 + Len(acc)
  BY <1>3, ConcatLen
<1> HIDE DEF kept
<1>7. kept \o back \in Seq(Token) /\ Len(kept \o back) = Len(kept) + Len(back)
  BY <1>4, <1>6, ConcatLen
<1>8. Len(kept) + Len(back) = Len(forwarding_tokens) - (d - Len(acc))
  BY <1>4, <1>6
<1>9. QED
  BY <1>1, <1>5, <1>7, <1>8

\* A placeholder block has a main slot and n draft slots.
LEMMA PlaceholderBlockType ==
  ASSUME NEW n \in Nat
  PROVE  PlaceholderBlock(n) \in Seq(Token) /\ Len(PlaceholderBlock(n)) = 1 + n
BY DEF PlaceholderBlock, Token, kFastPathPlaceholderTokenId

\* The prefix the client's text is made of.
LEMMA UptoType ==
  ASSUME NEW n \in Nat
  PROVE  Upto(n) \in Seq(Token) /\ Len(Upto(n)) = n
  BY DEF Upto, Token

-----------------------------------------------------------------------------
(***************************************************************************)
(* Workloads and steps.                                                    *)
(***************************************************************************)

\* The workloads that the model builds are workloads.
LEMMA WorkTypes ==
  /\ \A n, m \in Nat : PrefillWork(n, m) \in Workload /\ DecodeWork(n, m) \in Workload
  /\ NoWork \in Workload /\ NoTask \in PlannedTask
BY DEF PrefillWork, DecodeWork, NoWork, NoTask, Workload, PlannedTask

\* A launch adds a well-formed entry to the in-flight queue.
LEMMA LaunchedType ==
  ASSUME NEW w \in Workload, NEW kind \in StepKinds, NEW fwd \in Seq(Token),
         NEW kv \in Nat, NEW ph \in BOOLEAN, planning_task \in PlannedTask
  PROVE  Launched(w, kind, fwd, kv, ph) \in InflightTask
<1>1. w.draft_token_num \in Nat /\ planning_task.planned_len \in Nat
  BY DEF Workload, PlannedTask
<1>2. Len(fwd) \in Nat
  OBVIOUS
<1>3. QED
  BY <1>1, <1>2 DEF Launched, InflightTask

\* The length that a workload is planned with is a natural number.
LEMMA PlanningLenType ==
  ASSUME NEW w \in Workload, forwarding_tokens \in Seq(Token)
  PROVE  GetPlanningSequenceLen(w) \in Nat
BY DEF GetPlanningSequenceLen, GetTokenNum, Workload

-----------------------------------------------------------------------------
(***************************************************************************)
(* Type correctness needs two more facts.  Only a request that may still   *)
(* be recomputed is stopped before its stop token, and the planned chunk   *)
(* and the remaining workload stay within the prompt.                      *)
(***************************************************************************)

RecomputeBound ==
  is_stopped /\ ~is_eos_generated => recomputes < MaxRecompute

PromptBound ==
  /\ ChunkEnd(remaining_workload) = Len(prefilling_tokens)
  /\ planning_task.workload.prefill_token_num > 0
       => ChunkEnd(planning_task.workload) <= Len(prefilling_tokens)

TypeInv == TypeOK /\ RecomputeBound /\ PromptBound

\* The two numbers of a prefill workload.
LEMMA PrefillEnd ==
  ASSUME NEW n \in Nat, NEW m \in Nat
  PROVE  ChunkEnd(PrefillWork(n, m)) = m + n
BY DEF ChunkEnd, PrefillWork

\* A new request has its types.
LEMMA TypeInit == Init => TypeInv
<1> SUFFICES ASSUME Init PROVE TypeInv
  OBVIOUS
<1>1. TokensTyped
  <2>1. Upto(PromptLen) \in Seq(Token)
    BY UptoType, InferRequestAssumption
  <2>2. QED
    BY <2>1, EmptySeq DEF Init, TokensTyped
<1>2. QueuesTyped
  <2>1. Len(inflight_tasks) = 0 /\ 0 <= max_depth
    BY EmptySeq DEF Init, max_depth, kMaxInflightDepth
  <2>2. QED
    BY <2>1, EmptySeq DEF Init, QueuesTyped
<1>3. WorkTyped
  BY WorkTypes, InferRequestAssumption DEF Init, WorkTyped
<1>4. ScalarsTyped
  <2>1. /\ kv_cached_token_num = 0 /\ forwarding_tokens_draft_num = 0
        /\ infer_stage = "context" /\ ~is_eos_generated /\ is_eos_generated \in BOOLEAN
        /\ is_stopped \in BOOLEAN /\ eos \in EosPositions
        /\ exec_len = PromptLen /\ exec_good = 0 /\ recomputes = 0
    BY DEF Init
  <2>2. PromptLen \in Nat /\ 0 \in 0..MaxRecompute
    BY InferRequestAssumption
  <2>3. QED
    BY <2>1, <2>2 DEF ScalarsTyped
<1>5. PromptBound
  <2>1. /\ remaining_workload = PrefillWork(PromptLen, 0)
        /\ Len(prefilling_tokens) = PromptLen
        /\ planning_task.workload.prefill_token_num = 0
    BY UptoType, InferRequestAssumption DEF Init, NoTask, NoWork, DecodeWork
  <2>2. QED
    BY <2>1, PrefillEnd, InferRequestAssumption DEF PromptBound
<1>6. RecomputeBound
  BY DEF Init, RecomputeBound
<1>7. QED
  BY <1>1, <1>2, <1>3, <1>4, <1>5, <1>6 DEF TypeInv, TypeOK

\* Planning touches the three workloads only.
LEMMA TypePlanning ==
  ASSUME TypeInv, UNCHANGED <<pipeline, is_stopped, executor>>, WorkTyped',
         PromptBound'
  PROVE  TypeInv'
BY DEF TypeInv, TypeOK, TokensTyped, QueuesTyped, ScalarsTyped, RecomputeBound,
       pipeline, executor

\* What a hit leaves of the prompt ends where the prompt ends.
LEMMA TypePrefixCacheHit ==
  ASSUME TypeInv, NEW n \in 1..Len(prefilling_tokens), PrefixCacheHit(n)
  PROVE  TypeInv'
<1>1. /\ Len(prefilling_tokens) - n \in Nat /\ n \in Nat
      /\ Len(prefilling_tokens) \in Nat
  BY DEF PrefixCacheHit, TypeInv, TypeOK, TokensTyped
<1>2. WorkTyped'
  BY <1>1, WorkTypes DEF PrefixCacheHit, TypeInv, TypeOK, WorkTyped
<1>3. PromptBound'
  <2>1. /\ remaining_workload' = PrefillWork(Len(prefilling_tokens) - n, n)
        /\ UNCHANGED <<prefilling_tokens, planning_task>>
    BY DEF PrefixCacheHit, pipeline
  <2>2. ChunkEnd(remaining_workload') = Len(prefilling_tokens)
    <3>1. ChunkEnd(PrefillWork(Len(prefilling_tokens) - n, n))
            = n + (Len(prefilling_tokens) - n)
      BY <1>1, PrefillEnd
    <3>2. n + (Len(prefilling_tokens) - n) = Len(prefilling_tokens)
      BY <1>1
    <3>3. QED
      BY <2>1, <3>1, <3>2
  <2>3. QED
    BY <2>1, <2>2 DEF PromptBound, TypeInv, ChunkEnd
<1>4. QED
  BY <1>2, <1>3, TypePlanning DEF PrefixCacheHit

\* An estimate changes the numbers of a decode workload only.
LEMMA TypeEstimation ==
  ASSUME TypeInv, NEW n \in 0..MtpStepNum, SetInflightTaskGenResultEstimation(n)
  PROVE  TypeInv'
<1>1. n \in Nat
  BY InferRequestAssumption
<1>2. WorkTyped'
  BY <1>1 DEF SetInflightTaskGenResultEstimation, TypeInv, TypeOK, WorkTyped,
              Workload
<1>3. PromptBound'
  <2>1. UNCHANGED <<prefilling_tokens, planning_task,
                    remaining_workload.prefill_token_num,
                    remaining_workload.prefill_start_offset>>
    BY DEF SetInflightTaskGenResultEstimation, pipeline, TypeInv, TypeOK,
           WorkTyped, Workload
  <2>2. QED
    BY <2>1 DEF PromptBound, TypeInv, ChunkEnd
<1>4. QED
  BY <1>2, <1>3, TypePlanning DEF SetInflightTaskGenResultEstimation

\* Splitting a workload off leaves workloads.
LEMMA TypeSetPlanningTask ==
  ASSUME TypeInv, NEW w \in Workload, SetPlanningTask(w),
         w.prefill_token_num > 0
           => w.prefill_start_offset = remaining_workload.prefill_start_offset
  PROVE  TypeInv'
<1>1. planning_task' \in PlannedTask /\ planning_task'.workload = w
  BY PlanningLenType
     DEF SetPlanningTask, PlannedTask, TypeInv, TypeOK, TokensTyped
<1>2. PICK p, q, n \in Nat :
        /\ remaining_workload.prefill_token_num = p
        /\ remaining_workload.prefill_start_offset = q
        /\ w.prefill_token_num = n
  BY DEF TypeInv, TypeOK, WorkTyped, Workload
<1>3. p - n \in Nat /\ q + n \in Nat
  BY <1>2 DEF SetPlanningTask
<1>4. remaining_workload' = PrefillWork(p - n, q + n)
  BY <1>2 DEF SetPlanningTask, RestOfPrompt
<1>5. WorkTyped'
  BY <1>1, <1>3, <1>4, WorkTypes DEF SetPlanningTask, WorkTyped
<1>6. PromptBound'
  <2>1. q + p = Len(prefilling_tokens)
    BY <1>2 DEF TypeInv, PromptBound, ChunkEnd
  <2>2. ChunkEnd(remaining_workload') = q + p
    BY <1>3, <1>4, PrefillEnd
  <2>3. n > 0 => ChunkEnd(w) <= q + p
    BY <1>2, <1>3 DEF ChunkEnd
  <2>4. UNCHANGED prefilling_tokens
    BY DEF SetPlanningTask, pipeline
  <2>5. QED
    BY <1>1, <1>2, <2>1, <2>2, <2>3, <2>4 DEF PromptBound, ChunkEnd
<1>7. QED
  BY <1>5, <1>6, TypePlanning DEF SetPlanningTask

\* Both ways of planning do that.
LEMMA TypePlan ==
  ASSUME TypeInv,
         \/ \E n \in 1..Len(prefilling_tokens) : PlanPrefill(n)
         \/ PlanDecode
  PROVE  TypeInv'
<1>1. ASSUME NEW n \in 1..Len(prefilling_tokens), PlanPrefill(n)
      PROVE  TypeInv'
  <2> DEFINE w == PrefillWork(n, remaining_workload.prefill_start_offset)
  <2>1. n \in Nat /\ remaining_workload.prefill_start_offset \in Nat
    BY DEF TypeInv, TypeOK, WorkTyped, Workload
  <2>2. w \in Workload
    BY <2>1, WorkTypes
  <2>3. w.prefill_start_offset = remaining_workload.prefill_start_offset
    BY DEF PrefillWork
  <2>4. QED
    BY <1>1, <2>2, <2>3, TypeSetPlanningTask DEF PlanPrefill
<1>2. ASSUME PlanDecode PROVE TypeInv'
  <2>1. planning_workload \in Workload
    BY DEF TypeInv, TypeOK, WorkTyped
  <2>2. ~(planning_workload.prefill_token_num > 0)
    BY <1>2, <2>1 DEF PlanDecode, SetPlanningTask, Workload
  <2>3. QED
    BY <1>2, <2>1, <2>2, TypeSetPlanningTask DEF PlanDecode
<1>3. QED
  BY <1>1, <1>2

-----------------------------------------------------------------------------
\* The three ways a planned step is launched.

\* A launch is within the depth of its mode.
LEMMA QueueAfterLaunch ==
  ASSUME TypeInv, HasInflightCapacity, NEW t \in InflightTask
  PROVE  /\ Append(inflight_tasks, t) \in Seq(InflightTask)
         /\ Len(Append(inflight_tasks, t)) = Len(inflight_tasks) + 1
         /\ Len(Append(inflight_tasks, t)) <= max_depth
<1>1. /\ Append(inflight_tasks, t) \in Seq(InflightTask)
      /\ Len(Append(inflight_tasks, t)) = Len(inflight_tasks) + 1
  BY AppendProperties DEF TypeInv, TypeOK, QueuesTyped
<1>2. Len(inflight_tasks) \in Nat /\ Len(inflight_tasks) < max_depth
  BY LenProperties DEF TypeInv, TypeOK, QueuesTyped, HasInflightCapacity
<1>3. max_depth \in Nat
  BY DEF max_depth, kMaxInflightDepth
<1>4. QED
  BY <1>1, <1>2, <1>3

\* What a launch has to keep.
LaunchTyped ==
  /\ forwarding_tokens' \in Seq(Token)
  /\ kv_cached_token_num' \in Nat
  /\ forwarding_tokens_draft_num' \in Nat
  /\ draft_tokens' \in Seq(Token)
  /\ pending_placeholders' \in Seq(Block)
  /\ inflight_tasks' \in Seq(InflightTask)
  /\ Len(inflight_tasks') <= max_depth

\* The sequence that a chunk forwards, and its step.
LEMMA TypeLaunchPrefill ==
  ASSUME TypeInv, HasInflightCapacity, LaunchPrefill
  PROVE  LaunchTyped
<1> DEFINE w == planning_task.workload
           n == w.prefill_token_num + w.prefill_start_offset
           last_chunk == n >= Len(prefilling_tokens)
           prefix == IF Len(forwarding_tokens) = w.prefill_start_offset
                       THEN forwarding_tokens
                       ELSE SubSeq(prefilling_tokens, 1, w.prefill_start_offset)
           chunk == SubSeq(prefilling_tokens, w.prefill_start_offset + 1, n)
           drafts == IF last_chunk THEN draft_tokens ELSE <<>>
           body == prefix \o chunk
           fwd == body \o drafts
           done == IF last_chunk
                     THEN [w EXCEPT !.draft_token_num = Len(draft_tokens)] ELSE w
           kind == IF last_chunk THEN "prefill" ELSE "prefill_chunk_mid"
<1>1. /\ forwarding_tokens \in Seq(Token) /\ prefilling_tokens \in Seq(Token)
      /\ draft_tokens \in Seq(Token) /\ planning_task \in PlannedTask
      /\ w \in Workload
  BY DEF TypeInv, TypeOK, TokensTyped, WorkTyped, PlannedTask
<1>2. PICK len, start \in Nat :
        /\ w.prefill_token_num = len /\ w.prefill_start_offset = start
        /\ start + len <= Len(prefilling_tokens)
  BY <1>1 DEF Workload, LaunchPrefill, TypeInv, PromptBound, ChunkEnd
<1>3. n = len + start /\ n <= Len(prefilling_tokens)
  BY <1>1, <1>2
<1>4. prefix \in Seq(Token)
  <2>1. \A i \in 1..start : prefilling_tokens[i] \in Token
    BY <1>1, <1>2, ElementOfSeq
  <2>2. SubSeq(prefilling_tokens, 1, start) \in Seq(Token)
    BY <2>1, SubSeqProperties
  <2>3. QED
    BY <1>1, <1>2, <2>2
<1>5. chunk \in Seq(Token)
  <2>1. \A i \in (start + 1)..(len + start) : prefilling_tokens[i] \in Token
    BY <1>1, <1>2, ElementOfSeq
  <2>2. SubSeq(prefilling_tokens, start + 1, len + start) \in Seq(Token)
    BY <2>1, SubSeqProperties
  <2>3. QED
    BY <1>2, <2>2
<1>6. drafts \in Seq(Token)
  BY <1>1, EmptySeq
<1>7. done \in Workload /\ kind \in StepKinds
  <2>1. Len(draft_tokens) \in Nat
    BY <1>1
  <2>2. [w EXCEPT !.draft_token_num = Len(draft_tokens)] \in Workload
    BY <1>1, <2>1 DEF Workload
  <2>3. QED
    BY <1>1, <2>2 DEF StepKinds
<1>8. /\ forwarding_tokens' = fwd
      /\ kv_cached_token_num' = Len(prefix)
      /\ forwarding_tokens_draft_num' = done.draft_token_num
      /\ inflight_tasks' =
           Append(inflight_tasks, Launched(done, kind, fwd, Len(prefix), FALSE))
      /\ UNCHANGED <<draft_tokens, pending_placeholders>>
  BY DEF LaunchPrefill
<1> HIDE DEF prefix, chunk, drafts, done, kind
<1>9. body \in Seq(Token)
  BY <1>4, <1>5, ConcatLen
<1> HIDE DEF body
<1>10. fwd \in Seq(Token)
  BY <1>6, <1>9, ConcatLen
<1> HIDE DEF fwd, w
<1>11. Launched(done, kind, fwd, Len(prefix), FALSE) \in InflightTask
  <2>1. Len(prefix) \in Nat /\ FALSE \in BOOLEAN
    BY <1>4
  <2>2. QED
    BY <1>1, <1>7, <1>10, <2>1, LaunchedType
<1>12. QED
  <2>1. inflight_tasks' \in Seq(InflightTask) /\ Len(inflight_tasks') <= max_depth
    BY <1>8, <1>11, QueueAfterLaunch
  <2>2. done.draft_token_num \in Nat /\ Len(prefix) \in Nat
    BY <1>4, <1>7 DEF Workload
  <2>3. pending_placeholders \in Seq(Block)
    BY DEF TypeInv, TypeOK, QueuesTyped
  <2>4. QED
    BY <1>1, <1>8, <1>10, <2>1, <2>2, <2>3 DEF LaunchTyped

\* A decode step behind another one, with its placeholders.
LEMMA TypeReserve ==
  ASSUME TypeInv, HasInflightCapacity, ReserveBuildAheadPlaceholderBlock
  PROVE  LaunchTyped
<1> DEFINE n == planning_task.workload.draft_token_num
           kv == Len(forwarding_tokens)
           fwd == forwarding_tokens \o PlaceholderBlock(n)
           t == Launched(DecodeWork(1, n), "decode", fwd, kv, TRUE)
           b == [pos |-> kv, draft |-> n]
<1>1. /\ forwarding_tokens \in Seq(Token) /\ draft_tokens \in Seq(Token)
      /\ pending_placeholders \in Seq(Block) /\ planning_task \in PlannedTask
  BY DEF TypeInv, TypeOK, TokensTyped, QueuesTyped, WorkTyped
<1>2. n \in Nat /\ kv \in Nat
  BY <1>1 DEF PlannedTask, Workload
<1>3. /\ forwarding_tokens' = fwd /\ kv_cached_token_num' = kv
      /\ forwarding_tokens_draft_num' = n
      /\ pending_placeholders' = Append(pending_placeholders, b)
      /\ inflight_tasks' = Append(inflight_tasks, t)
      /\ UNCHANGED draft_tokens
  BY DEF ReserveBuildAheadPlaceholderBlock
<1> HIDE DEF n, kv
<1>4. fwd \in Seq(Token)
  BY <1>1, <1>2, PlaceholderBlockType, ConcatLen
<1> HIDE DEF fwd
<1>5. t \in InflightTask
  BY <1>1, <1>2, <1>4, WorkTypes, LaunchedType DEF StepKinds
<1>6. b \in Block
  BY <1>2 DEF Block
<1> HIDE DEF t, b
<1>7. pending_placeholders' \in Seq(Block)
  BY <1>1, <1>3, <1>6, AppendProperties
<1>8. inflight_tasks' \in Seq(InflightTask) /\ Len(inflight_tasks') <= max_depth
  BY <1>3, <1>5, QueueAfterLaunch
<1>9. QED
  BY <1>1, <1>2, <1>3, <1>4, <1>7, <1>8 DEF LaunchTyped

\* A decode step with tokens that are known.
LEMMA TypeAppend ==
  ASSUME TypeInv, HasInflightCapacity, AppendDecodeTokensWithoutPlaceholder
  PROVE  LaunchTyped
<1> DEFINE w == planning_task.workload
           ready == w.generated_token_num + w.draft_token_num
                      - Len(generated_tokens)
           m == Min2(ready, Len(draft_tokens))
           drafts == SubSeq(draft_tokens, 1, m)
           kv == Len(forwarding_tokens)
           body == forwarding_tokens \o generated_tokens
           fwd == body \o drafts
           done == DecodeWork(Len(generated_tokens), Len(drafts))
           t == Launched(done, "decode", fwd, kv, FALSE)
<1>1. /\ forwarding_tokens \in Seq(Token) /\ draft_tokens \in Seq(Token)
      /\ generated_tokens \in Seq(Token)
      /\ pending_placeholders \in Seq(Block) /\ planning_task \in PlannedTask
  BY DEF TypeInv, TypeOK, TokensTyped, QueuesTyped, WorkTyped
<1>2. kv \in Nat /\ Len(generated_tokens) \in Nat /\ Len(draft_tokens) \in Nat
  BY <1>1
<1>3. m \in Int /\ m <= Len(draft_tokens)
  <2>1. ready \in Int
    BY <1>1, <1>2 DEF PlannedTask, Workload
  <2>2. QED
    BY <1>2, <2>1 DEF Min2
<1>4. /\ forwarding_tokens' = fwd /\ kv_cached_token_num' = kv
      /\ forwarding_tokens_draft_num' = Len(drafts)
      /\ draft_tokens' = drafts
      /\ inflight_tasks' = Append(inflight_tasks, t)
      /\ UNCHANGED pending_placeholders
  BY DEF AppendDecodeTokensWithoutPlaceholder
<1> HIDE DEF m
<1>5. drafts \in Seq(Token)
  <2>1. \A i \in 1..m : draft_tokens[i] \in Token
    BY <1>1, <1>3, ElementOfSeq
  <2>2. QED
    BY <1>3, <2>1, SubSeqProperties
<1> HIDE DEF drafts, kv
<1>6. body \in Seq(Token)
  BY <1>1, ConcatLen
<1> HIDE DEF body
<1>7. fwd \in Seq(Token)
  BY <1>5, <1>6, ConcatLen
<1> HIDE DEF fwd
<1>8. Len(drafts) \in Nat
  BY <1>5
<1>9. done \in Workload
  BY <1>2, <1>8, WorkTypes
<1> HIDE DEF done
<1>10. t \in InflightTask
  BY <1>1, <1>2, <1>7, <1>9, LaunchedType DEF StepKinds
<1> HIDE DEF t
<1>11. inflight_tasks' \in Seq(InflightTask) /\ Len(inflight_tasks') <= max_depth
  BY <1>4, <1>10, QueueAfterLaunch
<1>12. QED
  BY <1>1, <1>2, <1>4, <1>5, <1>7, <1>8, <1>11 DEF LaunchTyped

\* A launch keeps the types.
LEMMA TypeLaunch ==
  ASSUME TypeInv, LaunchPlanningTask
  PROVE  TypeInv'
<1>1. LaunchTyped
  BY TypeLaunchPrefill, TypeReserve, TypeAppend DEF LaunchPlanningTask
<1>2. /\ planning_task' = NoTask
      /\ UNCHANGED <<output_tokens, prefilling_tokens, generated_tokens,
                     accepted_tokens, infer_stage, planning_workload,
                     remaining_workload, is_eos_generated, is_stopped>>
      /\ UNCHANGED <<eos, exec_len, exec_good, recomputes>>
  BY DEF LaunchPlanningTask, executor
<1>3. TokensTyped' /\ QueuesTyped'
  BY <1>1, <1>2 DEF LaunchTyped, TypeInv, TypeOK, TokensTyped, QueuesTyped,
                    max_depth
<1>4. WorkTyped'
  BY <1>2, WorkTypes DEF TypeInv, TypeOK, WorkTyped
<1>5. ScalarsTyped'
  BY <1>1, <1>2 DEF LaunchTyped, TypeInv, TypeOK, ScalarsTyped
<1>6. PromptBound'
  <2>1. ~(planning_task'.workload.prefill_token_num > 0)
    BY <1>2 DEF NoTask, NoWork, DecodeWork
  <2>2. QED
    BY <1>2, <2>1 DEF TypeInv, PromptBound, ChunkEnd
<1>7. RecomputeBound'
  BY <1>2 DEF TypeInv, RecomputeBound
<1>8. QED
  BY <1>3, <1>4, <1>5, <1>6, <1>7 DEF TypeInv, TypeOK

-----------------------------------------------------------------------------
(***************************************************************************)
(* Placeholder blocks.  They exist only once the whole prompt is launched, *)
(* and they lie in forwarding_tokens one behind the other: without this    *)
(* the positions moved by a retirement could underflow.                    *)
(***************************************************************************)

DecodePhase ==
  /\ HasPlanningTask /\ planning_task.workload.prefill_token_num = 0
       => remaining_workload.prefill_token_num = 0
  /\ pending_placeholders # <<>>
       => /\ remaining_workload.prefill_token_num = 0
          /\ planning_task.workload.prefill_token_num = 0

BlocksOrdered ==
  /\ \A i \in 1..Len(pending_placeholders) :
       BlockEnd(pending_placeholders[i]) <= Len(forwarding_tokens)
  /\ \A i, j \in 1..Len(pending_placeholders) :
       i < j => BlockEnd(pending_placeholders[i]) <= pending_placeholders[j].pos

\* The blocks behind the one that is cut, in their new places.
MovedBlocks(b, trimmed) ==
  [i \in 1..(Len(pending_placeholders) - 1) |->
     Shifted(pending_placeholders[i + 1], b, trimmed)]

\* Blocks that are moved by what was cut in front of them stay blocks in order.
LEMMA MovedBlocksType ==
  ASSUME pending_placeholders \in Seq(Block), pending_placeholders # <<>>,
         BlocksOrdered, NEW trimmed \in Nat,
         trimmed <= Head(pending_placeholders).draft
  PROVE  LET b == Head(pending_placeholders)
             rest == MovedBlocks(b, trimmed)
         IN  /\ rest \in Seq(Block)
             /\ Len(rest) = Len(pending_placeholders) - 1
             /\ \A i \in 1..Len(rest) :
                  /\ rest[i].pos = pending_placeholders[i + 1].pos - trimmed
                  /\ rest[i].draft = pending_placeholders[i + 1].draft
                  /\ BlockEnd(rest[i])
                       = BlockEnd(pending_placeholders[i + 1]) - trimmed
<1> DEFINE b == Head(pending_placeholders)
           k == Len(pending_placeholders)
           rest == MovedBlocks(b, trimmed)
<1>1. k \in Nat /\ k >= 1 /\ b = pending_placeholders[1] /\ b \in Block
  BY EmptySeq, ElementOfSeq
<1>2. PICK bp, bd \in Nat : b.pos = bp /\ b.draft = bd /\ BlockEnd(b) = bp + 1 + bd
  BY <1>1, BlockFields
<1>3. rest = [i \in 1..(k - 1) |-> rest[i]]
  BY DEF MovedBlocks
<1>4. ASSUME NEW i \in 1..(k - 1)
      PROVE  /\ rest[i] \in Block
             /\ rest[i].pos = pending_placeholders[i + 1].pos - trimmed
             /\ rest[i].draft = pending_placeholders[i + 1].draft
             /\ BlockEnd(rest[i])
                  = BlockEnd(pending_placeholders[i + 1]) - trimmed
  <2> DEFINE p == pending_placeholders[i + 1]
  <2>1. p \in Block /\ i + 1 \in 1..k /\ 1 < i + 1
    BY <1>1, ElementOfSeq
  <2>2. PICK pp, pd \in Nat : p.pos = pp /\ p.draft = pd /\ BlockEnd(p) = pp + 1 + pd
    BY <2>1, BlockFields
  <2>3. bp + 1 + bd <= pp
    BY <1>1, <1>2, <2>1, <2>2 DEF BlocksOrdered
  <2>4. pp > bp /\ pp - trimmed \in Nat
    BY <1>2, <2>3
  <2>5. rest[i] = Shifted(p, b, trimmed)
    BY <1>1 DEF MovedBlocks
  <2> HIDE DEF p, b
  <2>6. Shifted(p, b, trimmed) = [p EXCEPT !.pos = @ - trimmed]
    BY <1>2, <2>2, <2>4 DEF Shifted
  <2>7. p \in [pos : Nat, draft : Nat]
    BY <2>1 DEF Block
  <2>8. rest[i] = [pos |-> pp - trimmed, draft |-> pd]
    BY <2>2, <2>5, <2>6, <2>7
  <2>9. (pp - trimmed) + 1 + pd = (pp + 1 + pd) - trimmed
    BY <2>4
  <2>10. QED
    BY <2>2, <2>4, <2>8, <2>9 DEF Block, BlockEnd, p
<1> HIDE DEF rest
<1>5. rest \in Seq(Block) /\ Len(rest) = k - 1
  <2>1. k - 1 \in Int /\ k - 1 >= 0
    BY <1>1
  <2>2. QED
    BY <1>3, <1>4, <2>1, FunctionIsSeq
<1>6. QED
  BY <1>4, <1>5 DEF rest

-----------------------------------------------------------------------------
(***************************************************************************)
(* Planning and launching keep the blocks in order.                        *)
(***************************************************************************)

LayoutInv == TypeInv /\ DecodePhase /\ BlocksOrdered

\* The fields the phase is about.
LEMMA PhaseTypes ==
  ASSUME TypeInv
  PROVE  /\ remaining_workload.prefill_token_num \in Nat
         /\ planning_task.workload.prefill_token_num \in Nat
         /\ pending_placeholders \in Seq(Block)
         /\ forwarding_tokens \in Seq(Token)
         /\ inflight_tasks \in Seq(InflightTask)
BY DEF TypeInv, TypeOK, TokensTyped, QueuesTyped, WorkTyped, PlannedTask,
       Workload

\* Planning moves no block.
LEMMA LayoutPlanning ==
  ASSUME LayoutInv,
         \/ \E n \in 1..Len(prefilling_tokens) : PrefixCacheHit(n)
         \/ \E n \in 0..MtpStepNum : SetInflightTaskGenResultEstimation(n)
         \/ \E n \in 1..Len(prefilling_tokens) : PlanPrefill(n)
         \/ PlanDecode
  PROVE  DecodePhase' /\ BlocksOrdered'
<1>1. UNCHANGED <<pending_placeholders, forwarding_tokens>>
  BY DEF PrefixCacheHit, SetInflightTaskGenResultEstimation, PlanPrefill,
         PlanDecode, SetPlanningTask, pipeline
<1>2. BlocksOrdered'
  BY <1>1 DEF LayoutInv, BlocksOrdered
<1>3. ~HasPlanningTask
  BY DEF PrefixCacheHit, SetInflightTaskGenResultEstimation, PlanPrefill,
         PlanDecode, SetPlanningTask, CanPlan
<1>4. /\ remaining_workload.prefill_token_num \in Nat
      /\ planning_task.workload.prefill_token_num \in Nat
      /\ planning_task \in PlannedTask /\ remaining_workload \in Workload
      /\ planning_workload \in Workload /\ prefilling_tokens \in Seq(Token)
  BY PhaseTypes DEF LayoutInv, TypeInv, TypeOK, WorkTyped, TokensTyped
<1>5. ASSUME NEW n \in 1..Len(prefilling_tokens), PrefixCacheHit(n)
      PROVE  DecodePhase'
  <2>1. remaining_workload.prefill_token_num = Len(prefilling_tokens)
    BY <1>5 DEF PrefixCacheHit, PrefillWork
  <2>2. remaining_workload.prefill_token_num # 0
    BY <1>4, <2>1
  <2>3. pending_placeholders' = <<>>
    BY <1>1, <2>2 DEF LayoutInv, DecodePhase
  <2>4. ~HasPlanningTask'
    BY <1>3, <1>5 DEF PrefixCacheHit, HasPlanningTask, IsEmpty, GetTokenNum
  <2>5. QED
    BY <2>3, <2>4 DEF DecodePhase
<1>6. ASSUME NEW n \in 0..MtpStepNum, SetInflightTaskGenResultEstimation(n)
      PROVE  DecodePhase'
  <2>1. UNCHANGED <<planning_task, remaining_workload.prefill_token_num>>
    BY <1>4, <1>6 DEF SetInflightTaskGenResultEstimation, Workload
  <2>2. HasPlanningTask' = HasPlanningTask
    BY <2>1 DEF HasPlanningTask, IsEmpty, GetTokenNum
  <2>3. QED
    BY <1>1, <2>1, <2>2 DEF LayoutInv, DecodePhase
<1>7. ASSUME NEW n \in 1..Len(prefilling_tokens), PlanPrefill(n)
      PROVE  DecodePhase'
  <2>1. remaining_workload.prefill_token_num # 0
    BY <1>4, <1>7 DEF PlanPrefill
  <2>2. pending_placeholders' = <<>>
    BY <1>1, <2>1 DEF LayoutInv, DecodePhase
  <2>3. planning_task'.workload.prefill_token_num = n
    BY <1>7 DEF PlanPrefill, SetPlanningTask, PrefillWork
  <2>4. n # 0
    BY <1>4
  <2>5. QED
    BY <2>2, <2>3, <2>4 DEF DecodePhase
<1>8. ASSUME PlanDecode PROVE DecodePhase'
  <2>1. planning_workload.prefill_token_num = 0
    BY <1>4, <1>8 DEF PlanDecode, SetPlanningTask, Workload
  <2>2. planning_task'.workload = planning_workload
    BY <1>8 DEF PlanDecode, SetPlanningTask
  <2>3. remaining_workload'.prefill_token_num = 0
    BY <1>8, <2>1 DEF PlanDecode, SetPlanningTask, RestOfPrompt, PrefillWork
  <2>4. QED
    BY <2>1, <2>2, <2>3 DEF DecodePhase
<1>9. QED
  BY <1>2, <1>5, <1>6, <1>7, <1>8

\* A launch appends at most one block, behind all others.
LEMMA LayoutLaunch ==
  ASSUME LayoutInv, LaunchPlanningTask
  PROVE  DecodePhase' /\ BlocksOrdered'
<1>1. LaunchTyped /\ planning_task' = NoTask /\ UNCHANGED remaining_workload
  BY TypeLaunchPrefill, TypeReserve, TypeAppend DEF LayoutInv, LaunchPlanningTask
<1>2. /\ ~HasPlanningTask'
      /\ planning_task'.workload.prefill_token_num = 0
  BY <1>1 DEF HasPlanningTask, IsEmpty, GetTokenNum, NoTask, NoWork, DecodeWork
<1>3. HasPlanningTask
  BY DEF LaunchPlanningTask
<1>4. CASE LaunchPrefill
  <2>1. planning_task.workload.prefill_token_num # 0
    <3>1. planning_task.workload.prefill_token_num > 0
      BY <1>4 DEF LaunchPrefill
    <3>2. planning_task.workload.prefill_token_num \in Nat
      BY PhaseTypes DEF LayoutInv
    <3>3. QED
      BY <3>1, <3>2
  <2>2. pending_placeholders' = <<>>
    BY <1>4, <2>1 DEF LaunchPrefill, LayoutInv, DecodePhase
  <2>3. QED
    BY <1>2, <2>2, EmptySeq DEF DecodePhase, BlocksOrdered
<1>5. CASE planning_task.workload.prefill_token_num = 0
           /\ ReserveBuildAheadPlaceholderBlock
  <2> DEFINE n == planning_task.workload.draft_token_num
             len == Len(forwarding_tokens)
             b == [pos |-> len, draft |-> n]
  <2>1. n \in Nat /\ len \in Nat /\ forwarding_tokens \in Seq(Token)
    <3>1. forwarding_tokens \in Seq(Token) /\ planning_task \in PlannedTask
      BY DEF LayoutInv, TypeInv, TypeOK, TokensTyped, WorkTyped
    <3>2. QED
      BY <3>1 DEF PlannedTask, Workload
  <2>2. /\ forwarding_tokens' = forwarding_tokens \o PlaceholderBlock(n)
        /\ pending_placeholders' = Append(pending_placeholders, b)
    BY <1>5 DEF ReserveBuildAheadPlaceholderBlock
  <2> HIDE DEF n, len
  <2>3. Len(forwarding_tokens') = len + (1 + n)
    <3>1. PlaceholderBlock(n) \in Seq(Token) /\ Len(PlaceholderBlock(n)) = 1 + n
      BY <2>1, PlaceholderBlockType
    <3>2. Len(forwarding_tokens \o PlaceholderBlock(n))
            = Len(forwarding_tokens) + Len(PlaceholderBlock(n))
      BY <2>1, <3>1, ConcatLen
    <3>3. QED
      BY <2>2, <3>1, <3>2 DEF len
  <2>4. b \in Block /\ b.pos = len /\ BlockEnd(b) = len + 1 + n
    BY <2>1 DEF Block, BlockEnd
  <2> HIDE DEF b
  <2> DEFINE k == Len(pending_placeholders)
  <2>5. /\ k \in Nat /\ Len(pending_placeholders') = k + 1
        /\ \A i \in 1..k : pending_placeholders'[i] = pending_placeholders[i]
        /\ pending_placeholders'[k + 1] = b
    BY <2>2, <2>4, PhaseTypes, AppendProperties DEF LayoutInv
  <2>6. \A i \in 1..k : BlockEnd(pending_placeholders[i]) <= len
    BY DEF LayoutInv, BlocksOrdered, len
  <2>7. \A i \in 1..k : BlockEnd(pending_placeholders[i]) \in Nat
    BY PhaseTypes, ElementOfSeq, BlockFields DEF LayoutInv
  <2>8. \A i \in 1..(k + 1) :
          BlockEnd(pending_placeholders'[i]) <= Len(forwarding_tokens')
    <3>1. ASSUME NEW i \in 1..k
          PROVE  BlockEnd(pending_placeholders'[i]) <= Len(forwarding_tokens')
      <4>1. BlockEnd(pending_placeholders[i]) <= len + (1 + n)
        BY <2>1, <2>6, <2>7
      <4>2. QED
        BY <2>3, <2>5, <4>1
    <3>2. BlockEnd(pending_placeholders'[k + 1]) <= Len(forwarding_tokens')
      BY <2>1, <2>3, <2>4, <2>5
    <3>3. QED
      BY <2>5, <3>1, <3>2
  <2>9. ASSUME NEW i \in 1..(k + 1), NEW j \in 1..(k + 1), i < j
        PROVE  BlockEnd(pending_placeholders'[i]) <= pending_placeholders'[j].pos
    <3>1. i \in 1..k
      BY <2>5, <2>9
    <3>2. CASE j \in 1..k
      BY <2>5, <2>9, <3>1, <3>2 DEF LayoutInv, BlocksOrdered
    <3>3. CASE j = k + 1
      BY <2>4, <2>5, <2>6, <3>1, <3>3
    <3>4. QED
      BY <2>5, <3>2, <3>3
  <2>10. BlocksOrdered'
    BY <2>5, <2>8, <2>9 DEF BlocksOrdered
  <2>11. remaining_workload.prefill_token_num = 0
    BY <1>3, <1>5 DEF LayoutInv, DecodePhase
  <2>12. QED
    BY <1>1, <1>2, <2>10, <2>11 DEF DecodePhase
<1>6. CASE planning_task.workload.prefill_token_num = 0
           /\ AppendDecodeTokensWithoutPlaceholder
  <2>1. UNCHANGED pending_placeholders
    BY <1>6 DEF AppendDecodeTokensWithoutPlaceholder
  <2>2. Len(forwarding_tokens') >= Len(forwarding_tokens)
    <3> DEFINE body == forwarding_tokens \o generated_tokens
               drafts == draft_tokens'
    <3>1. forwarding_tokens' = body \o drafts
      BY <1>6 DEF AppendDecodeTokensWithoutPlaceholder
    <3>2. drafts \in Seq(Token)
      BY <1>1 DEF LaunchTyped
    <3>3. forwarding_tokens \in Seq(Token) /\ generated_tokens \in Seq(Token)
      BY DEF LayoutInv, TypeInv, TypeOK, TokensTyped
    <3>4. body \in Seq(Token)
          /\ Len(body) = Len(forwarding_tokens) + Len(generated_tokens)
      BY <3>3, ConcatLen
    <3> HIDE DEF body, drafts
    <3>5. Len(body \o drafts) = Len(body) + Len(drafts)
      BY <3>2, <3>4, ConcatLen
    <3>6. QED
      BY <3>1, <3>2, <3>3, <3>4, <3>5
  <2>3. BlocksOrdered'
    <3>1. /\ Len(forwarding_tokens) \in Nat
          /\ Len(forwarding_tokens') \in Nat
      BY <1>1, PhaseTypes DEF LaunchTyped, LayoutInv
    <3>2. \A i \in 1..Len(pending_placeholders) :
            /\ BlockEnd(pending_placeholders[i]) \in Nat
            /\ BlockEnd(pending_placeholders[i]) <= Len(forwarding_tokens)
      BY PhaseTypes, ElementOfSeq, BlockFields DEF LayoutInv, BlocksOrdered
    <3>3. \A i \in 1..Len(pending_placeholders) :
            BlockEnd(pending_placeholders[i]) <= Len(forwarding_tokens')
      BY <2>2, <3>1, <3>2
    <3>4. QED
      BY <2>1, <3>3 DEF LayoutInv, BlocksOrdered
  <2>4. QED
    BY <1>1, <1>2, <2>1, <2>3 DEF LayoutInv, DecodePhase
<1>7. QED
  BY <1>4, <1>5, <1>6 DEF LaunchPlanningTask

-----------------------------------------------------------------------------
(***************************************************************************)
(* The five ways a step retires.                                           *)
(***************************************************************************)

\* What every one of them keeps.
RetireKeeps ==
  /\ output_tokens' \in Seq(Token) /\ forwarding_tokens' \in Seq(Token)
  /\ generated_tokens' \in Seq(Token) /\ accepted_tokens' \in Seq(Token)
  /\ draft_tokens' \in Seq(Token)
  /\ kv_cached_token_num' \in Nat /\ forwarding_tokens_draft_num' \in Nat
  /\ infer_stage' \in {"context", "decode"} /\ is_eos_generated' \in BOOLEAN
  /\ is_eos_generated => is_eos_generated'
  /\ planning_workload' \in Workload /\ remaining_workload' \in Workload
  /\ remaining_workload'.prefill_token_num = remaining_workload.prefill_token_num
  /\ remaining_workload'.prefill_start_offset
       = remaining_workload.prefill_start_offset
  /\ pending_placeholders' \in Seq(Block) /\ BlocksOrdered'
  /\ pending_placeholders' # <<>> => pending_placeholders # <<>>

\* The types a retirement starts from.
LEMMA RetireTypes ==
  ASSUME LayoutInv
  PROVE  /\ output_tokens \in Seq(Token) /\ forwarding_tokens \in Seq(Token)
         /\ generated_tokens \in Seq(Token) /\ accepted_tokens \in Seq(Token)
         /\ draft_tokens \in Seq(Token)
         /\ kv_cached_token_num \in Nat /\ forwarding_tokens_draft_num \in Nat
         /\ infer_stage \in {"context", "decode"} /\ is_eos_generated \in BOOLEAN
         /\ planning_workload \in Workload /\ remaining_workload \in Workload
         /\ pending_placeholders \in Seq(Block) /\ BlocksOrdered
         /\ inflight_tasks \in Seq(InflightTask)
BY DEF LayoutInv, TypeInv, TypeOK, TokensTyped, QueuesTyped, WorkTyped,
       ScalarsTyped

\* The remaining workload after a retirement: only the decode part is new.
LEMMA RemainingType ==
  ASSUME NEW r \in Workload, NEW q, NEW g \in Nat, NEW d \in Nat,
         q = [r EXCEPT !.generated_token_num = g, !.draft_token_num = d]
  PROVE  /\ q \in Workload
         /\ q.prefill_token_num = r.prefill_token_num
         /\ q.prefill_start_offset = r.prefill_start_offset
BY DEF Workload

\* What is planned after a step has come back is a workload.
LEMMA PlanningAfterType ==
  ASSUME remaining_workload \in Workload, NEW gen \in Seq(Token),
         NEW dr \in Seq(Token)
  PROVE  PlanningAfter(gen, dr) \in Workload
<1>1. /\ Len(gen) \in Nat /\ Len(dr) \in Nat
      /\ remaining_workload.prefill_token_num \in Nat
  BY DEF Workload
<1>2. QED
  BY <1>1, WorkTypes DEF PlanningAfter

\* The first way a step comes back: behind the stop token.
LEMMA RetireAfterEosKeeps ==
  ASSUME LayoutInv, RetireAfterEos
  PROVE  RetireKeeps
<1>1. /\ generated_tokens' = <<>> /\ accepted_tokens' = <<>>
      /\ draft_tokens' = <<>> /\ pending_placeholders' = PendingAfterEos
      /\ UNCHANGED <<output_tokens, forwarding_tokens, kv_cached_token_num,
                     forwarding_tokens_draft_num, infer_stage,
                     planning_workload, remaining_workload, is_eos_generated>>
  BY DEF RetireAfterEos
<1>2. /\ pending_placeholders' \in Seq(Block)
      /\ BlocksOrdered'
      /\ pending_placeholders' # <<>> => pending_placeholders # <<>>
  <2>1. CASE pending_placeholders = <<>>
    BY <1>1, <2>1, EmptySeq DEF PendingAfterEos, BlocksOrdered
  <2>2. CASE pending_placeholders # <<>>
    <3> DEFINE k == Len(pending_placeholders)
    <3>1. pending_placeholders' = Tail(pending_placeholders)
      BY <1>1, <2>2 DEF PendingAfterEos
    <3>2. /\ pending_placeholders' \in Seq(Block)
          /\ Len(pending_placeholders') = k - 1
          /\ k \in Nat
          /\ \A i \in 1..(k - 1) :
               pending_placeholders'[i] = pending_placeholders[i + 1]
      BY <2>2, <3>1, RetireTypes, HeadTailProperties
    <3>3. \A i \in 1..(k - 1) : i + 1 \in 1..k
      BY <3>2
    <3>4. \A i, j \in 1..(k - 1) : i < j => i + 1 < j + 1
      BY <3>2
    <3>5. \A i \in 1..(k - 1) :
            BlockEnd(pending_placeholders'[i]) <= Len(forwarding_tokens')
      BY <1>1, <3>2, <3>3 DEF LayoutInv, BlocksOrdered
    <3>6. ASSUME NEW i \in 1..(k - 1), NEW j \in 1..(k - 1), i < j
          PROVE  BlockEnd(pending_placeholders'[i]) <= pending_placeholders'[j].pos
      <4>1. /\ pending_placeholders'[i] = pending_placeholders[i + 1]
            /\ pending_placeholders'[j] = pending_placeholders[j + 1]
            /\ i + 1 \in 1..k /\ j + 1 \in 1..k /\ i + 1 < j + 1
        BY <3>2, <3>3, <3>4, <3>6
      <4>2. QED
        BY <4>1 DEF LayoutInv, BlocksOrdered
    <3>7. BlocksOrdered'
      BY <3>2, <3>5, <3>6 DEF BlocksOrdered
    <3>8. QED
      BY <2>2, <3>2, <3>7
  <2>3. QED
    BY <2>1, <2>2
<1>3. QED
  BY <1>1, <1>2, RetireTypes, EmptySeq DEF RetireKeeps

\* The second: a chunk in the middle of the prompt.
LEMMA RetireSplitKeeps ==
  ASSUME LayoutInv, NEW acc \in Seq(Token), RetireSplitPrefill(acc)
  PROVE  RetireKeeps
<1>1. /\ generated_tokens' = <<>> /\ accepted_tokens' = acc
      /\ draft_tokens' = <<>> /\ kv_cached_token_num' = Len(forwarding_tokens)
      /\ remaining_workload' = [remaining_workload EXCEPT
                                 !.generated_token_num = 0, !.draft_token_num = 0]
      /\ planning_workload' = PlanningAfter(<<>>, <<>>)
      /\ UNCHANGED <<output_tokens, forwarding_tokens,
                     forwarding_tokens_draft_num, infer_stage,
                     pending_placeholders, is_eos_generated>>
  BY DEF RetireSplitPrefill
<1>2. planning_workload' \in Workload
  BY <1>1, RetireTypes, PlanningAfterType, EmptySeq
<1>3. /\ remaining_workload' \in Workload
      /\ remaining_workload'.prefill_token_num
           = remaining_workload.prefill_token_num
      /\ remaining_workload'.prefill_start_offset
           = remaining_workload.prefill_start_offset
  <2>1. remaining_workload \in Workload /\ 0 \in Nat
    BY RetireTypes
  <2>2. QED
    BY <1>1, <2>1, RemainingType
<1>4. BlocksOrdered' /\ Len(forwarding_tokens) \in Nat
  BY <1>1, RetireTypes DEF BlocksOrdered
<1>5. QED
  BY <1>1, <1>2, <1>3, <1>4, RetireTypes, EmptySeq DEF RetireKeeps

\* NewDecodeWork in terms of its parts.
LEMMA NewDecodeWorkType ==
  ASSUME LayoutInv, NEW gen \in Seq(Token), NEW dr \in Seq(Token),
         NewDecodeWork(gen, dr)
  PROVE  /\ planning_workload' \in Workload /\ remaining_workload' \in Workload
         /\ remaining_workload'.prefill_token_num
              = remaining_workload.prefill_token_num
         /\ remaining_workload'.prefill_start_offset
              = remaining_workload.prefill_start_offset
<1>1. Len(gen) \in Nat /\ Len(dr) \in Nat /\ remaining_workload \in Workload
  BY RetireTypes
<1>2. planning_workload' \in Workload
  BY <1>1, WorkTypes DEF NewDecodeWork
<1>3. remaining_workload' = [remaining_workload EXCEPT
                              !.generated_token_num = Len(gen),
                              !.draft_token_num = Len(dr)]
  BY DEF NewDecodeWork
<1>4. QED
  BY <1>1, <1>2, <1>3, RemainingType

\* Appending generated tokens to the output, and looking for a stop token.
LEMMA OutputType ==
  ASSUME NEW out \in Seq(Token), NEW acc \in Seq(Token), NEW gen \in Seq(Token)
  PROVE  /\ out \o gen \in Seq(Token)
         /\ out \o acc \o gen \in Seq(Token)
         /\ \A s : IsStopToken(s) \in BOOLEAN
<1> DEFINE oa == out \o acc
<1>1. out \o gen \in Seq(Token) /\ oa \in Seq(Token)
  BY ConcatLen
<1> HIDE DEF oa
<1>2. oa \o gen \in Seq(Token)
  BY <1>1, ConcatLen
<1>3. \A s : IsStopToken(s) \in BOOLEAN
  BY DEF IsStopToken
<1>4. QED
  BY <1>1, <1>2, <1>3 DEF oa

\* The third: the oldest block is the next step's.
LEMMA BackfillKeeps ==
  ASSUME LayoutInv, NEW gen \in Seq(Token), NEW acc \in Seq(Token),
         NEW dr \in Seq(Token),
         TryRetireBackfillNextPlaceholderBlock(gen, acc, dr)
  PROVE  RetireKeeps
<1> DEFINE b == Head(pending_placeholders)
<1>1. /\ pending_placeholders # <<>> /\ ~is_eos_generated
      /\ infer_stage' = "decode"
      /\ forwarding_tokens' =
           IF gen = <<>> THEN forwarding_tokens
           ELSE FillBlock(forwarding_tokens, b, gen[1], dr)
      /\ output_tokens' = output_tokens \o gen
      /\ is_eos_generated' = IsStopToken(output_tokens')
      /\ generated_tokens' = <<>> /\ accepted_tokens' = acc /\ draft_tokens' = dr
      /\ UNCHANGED <<kv_cached_token_num, forwarding_tokens_draft_num,
                     pending_placeholders>>
      /\ NewDecodeWork(gen, dr)
  BY DEF TryRetireBackfillNextPlaceholderBlock
<1>2. b \in Block
  BY <1>1, RetireTypes, HeadTailProperties
<1> HIDE DEF b
<1>3. /\ forwarding_tokens' \in Seq(Token)
      /\ Len(forwarding_tokens') = Len(forwarding_tokens)
  <2>1. CASE gen = <<>>
    BY <1>1, <2>1, RetireTypes
  <2>2. CASE gen # <<>>
    <3>1. gen[1] \in Token
      BY <2>2, EmptySeq, ElementOfSeq
    <3>2. /\ FillBlock(forwarding_tokens, b, gen[1], dr) \in Seq(Token)
          /\ Len(FillBlock(forwarding_tokens, b, gen[1], dr)) = Len(forwarding_tokens)
      BY <1>2, <3>1, RetireTypes, FillBlockType
    <3>3. QED
      BY <1>1, <2>2, <3>2
  <2>3. QED
    BY <2>1, <2>2
<1>4. BlocksOrdered'
  BY <1>1, <1>3, RetireTypes DEF BlocksOrdered
<1>5. output_tokens' \in Seq(Token) /\ is_eos_generated' \in BOOLEAN
  BY <1>1, RetireTypes, OutputType
<1>6. QED
  BY <1>1, <1>3, <1>4, <1>5, RetireTypes, NewDecodeWorkType, EmptySeq
     DEF RetireKeeps

\* The fourth: the oldest block is the step's own, and is cut.
LEMMA OwnBlockKeeps ==
  ASSUME LayoutInv, NEW gen \in Seq(Token), NEW acc \in Seq(Token),
         NEW dr \in Seq(Token),
         RetireOwnPlaceholderBlockAndShift(gen, acc, dr)
  PROVE  RetireKeeps
<1> DEFINE b == Head(pending_placeholders)
           trimmed == b.draft - Len(acc)
           rest == MovedBlocks(b, trimmed)
           kept == TrimBlock(b, acc)
           kv == VerifiedLen(b, Len(acc))
           fwd == IF rest # <<>> /\ gen # <<>>
                    THEN FillBlock(kept, rest[1], gen[1], dr) ELSE kept
<1>1. /\ pending_placeholders # <<>> /\ ~is_eos_generated
      /\ Len(acc) <= b.draft /\ BlockEnd(b) <= Len(forwarding_tokens)
      /\ infer_stage' = "decode"
      /\ pending_placeholders' = rest
      /\ forwarding_tokens' = fwd
      /\ output_tokens' = output_tokens \o acc \o gen
      /\ is_eos_generated' = IsStopToken(output_tokens')
      /\ kv_cached_token_num' = kv
      /\ forwarding_tokens_draft_num' =
           IF Len(kept) > kv + 1 THEN Len(kept) - kv - 1 ELSE 0
      /\ NewDecodeWork(gen, dr)
      /\ generated_tokens' = <<>> /\ accepted_tokens' = <<>>
      /\ draft_tokens' = dr
  BY DEF RetireOwnPlaceholderBlockAndShift, MovedBlocks
<1>2. b \in Block
  BY <1>1, RetireTypes, HeadTailProperties
<1>3. PICK p, d \in Nat : b.pos = p /\ b.draft = d /\ BlockEnd(b) = p + 1 + d
  BY <1>2, BlockFields
<1>4. trimmed \in Nat /\ trimmed <= b.draft /\ trimmed = d - Len(acc)
  BY <1>1, <1>3
<1>5. kept \in Seq(Token) /\ Len(kept) = Len(forwarding_tokens) - trimmed
  BY <1>1, <1>2, RetireTypes, TrimBlockType
<1>6. kv \in Nat
  BY <1>3 DEF VerifiedLen
<1>7. /\ rest \in Seq(Block)
      /\ Len(rest) = Len(pending_placeholders) - 1
      /\ \A i \in 1..Len(rest) :
           /\ rest[i].pos = pending_placeholders[i + 1].pos - trimmed
           /\ BlockEnd(rest[i]) = BlockEnd(pending_placeholders[i + 1]) - trimmed
  BY <1>1, <1>4, RetireTypes, MovedBlocksType
<1> HIDE DEF kept, kv, rest, trimmed, b
<1>8. fwd \in Seq(Token) /\ Len(fwd) = Len(kept)
  <2>1. CASE rest # <<>> /\ gen # <<>>
    <3>1. gen[1] \in Token /\ rest[1] \in Block
      BY <1>7, <2>1, EmptySeq, ElementOfSeq
    <3>2. /\ FillBlock(kept, rest[1], gen[1], dr) \in Seq(Token)
          /\ Len(FillBlock(kept, rest[1], gen[1], dr)) = Len(kept)
      BY <1>5, <3>1, FillBlockType
    <3>3. QED
      BY <2>1, <3>2
  <2>2. CASE ~(rest # <<>> /\ gen # <<>>)
    BY <1>5, <2>2
  <2>3. QED
    BY <2>1, <2>2
<1> HIDE DEF fwd
<1>9. BlocksOrdered'
  <2> DEFINE k == Len(pending_placeholders)
  <2>1. k \in Nat /\ Len(rest) = k - 1 /\ Len(forwarding_tokens) \in Nat
    BY <1>7, RetireTypes
  <2>2. \A i \in 1..(k - 1) : i + 1 \in 1..k
    BY <2>1
  <2>3. \A i \in 1..k : /\ BlockEnd(pending_placeholders[i]) \in Nat
                        /\ pending_placeholders[i].pos \in Nat
    <3>1. ASSUME NEW i \in 1..k
          PROVE  /\ BlockEnd(pending_placeholders[i]) \in Nat
                 /\ pending_placeholders[i].pos \in Nat
      <4>1. pending_placeholders[i] \in Block
        BY RetireTypes, ElementOfSeq
      <4>2. PICK q, e \in Nat :
              /\ pending_placeholders[i].pos = q
              /\ BlockEnd(pending_placeholders[i]) = q + 1 + e
        BY <4>1, BlockFields
      <4>3. QED
        BY <4>2
    <3>2. QED
      BY <3>1
  <2>4. Len(fwd) = Len(forwarding_tokens) - trimmed
    BY <1>5, <1>8
  <2>5. ASSUME NEW i \in 1..(k - 1)
        PROVE  BlockEnd(rest[i]) <= Len(fwd)
    <3>1. /\ BlockEnd(pending_placeholders[i + 1]) \in Nat
          /\ BlockEnd(pending_placeholders[i + 1]) <= Len(forwarding_tokens)
      BY <2>2, <2>3 DEF LayoutInv, BlocksOrdered
    <3>2. BlockEnd(rest[i]) = BlockEnd(pending_placeholders[i + 1]) - trimmed
      BY <1>7, <2>1
    <3>3. BlockEnd(pending_placeholders[i + 1]) - trimmed
            <= Len(forwarding_tokens) - trimmed
      BY <1>4, <2>1, <3>1
    <3>4. QED
      BY <2>4, <3>2, <3>3
  <2>6. ASSUME NEW i \in 1..(k - 1), NEW j \in 1..(k - 1), i < j
        PROVE  BlockEnd(rest[i]) <= rest[j].pos
    <3>1. i + 1 \in 1..k /\ j + 1 \in 1..k /\ i + 1 < j + 1
      BY <2>1, <2>6
    <3>2. /\ BlockEnd(pending_placeholders[i + 1]) \in Nat
          /\ pending_placeholders[j + 1].pos \in Nat
          /\ BlockEnd(pending_placeholders[i + 1])
               <= pending_placeholders[j + 1].pos
      BY <2>3, <3>1 DEF LayoutInv, BlocksOrdered
    <3>3. BlockEnd(pending_placeholders[i + 1]) - trimmed
            <= pending_placeholders[j + 1].pos - trimmed
      BY <1>4, <3>2
    <3>4. QED
      BY <1>7, <2>1, <3>3
  <2>7. QED
    BY <1>1, <2>1, <2>5, <2>6 DEF BlocksOrdered
<1>10. forwarding_tokens_draft_num' \in Nat
  BY <1>1, <1>5, <1>6
<1>11. output_tokens' \in Seq(Token) /\ is_eos_generated' \in BOOLEAN
  BY <1>1, RetireTypes, OutputType
<1>12. QED
  BY <1>1, <1>6, <1>7, <1>8, <1>9, <1>10, <1>11, NewDecodeWorkType, EmptySeq
     DEF RetireKeeps

\* The fifth: there is no block.
LEMMA WithoutPlaceholderKeeps ==
  ASSUME LayoutInv, NEW gen \in Seq(Token), NEW acc \in Seq(Token),
         NEW dr \in Seq(Token), RetireWithoutPlaceholder(gen, acc, dr)
  PROVE  RetireKeeps
<1> DEFINE verified == Head(inflight_tasks).workload.draft_token_num > 0
           n == Len(forwarding_tokens) - forwarding_tokens_draft_num + Len(acc)
           fwd == IF verified THEN Resize(forwarding_tokens, n)
                  ELSE forwarding_tokens
           more == IF verified THEN acc ELSE <<>>
<1>1. /\ pending_placeholders = <<>> /\ ~is_eos_generated
      /\ infer_stage' = "decode"
      /\ forwarding_tokens' = fwd
      /\ output_tokens' = output_tokens \o more \o gen
      /\ is_eos_generated' = IsStopToken(output_tokens')
      /\ accepted_tokens' = IF verified THEN <<>> ELSE acc
      /\ generated_tokens' = gen /\ draft_tokens' = dr
      /\ kv_cached_token_num' = Len(fwd)
      /\ remaining_workload' = [remaining_workload EXCEPT
                                 !.generated_token_num = Len(gen),
                                 !.draft_token_num = Len(dr)]
      /\ planning_workload' = PlanningAfter(gen, dr)
      /\ UNCHANGED <<forwarding_tokens_draft_num, pending_placeholders>>
  BY DEF RetireWithoutPlaceholder
<1> HIDE DEF verified
<1>2. more \in Seq(Token) /\ accepted_tokens' \in Seq(Token)
  BY <1>1, EmptySeq
<1>3. fwd \in Seq(Token)
  <2>1. n \in Int
    BY RetireTypes
  <2> HIDE DEF n
  <2>2. Resize(forwarding_tokens, n) \in Seq(Token)
    BY <2>1, RetireTypes, ResizeType
  <2>3. QED
    BY <2>2, RetireTypes
<1> HIDE DEF fwd, more
<1>4. Len(fwd) \in Nat
  BY <1>3
<1>5. output_tokens' \in Seq(Token) /\ is_eos_generated' \in BOOLEAN
  BY <1>1, <1>2, RetireTypes, OutputType
<1>6. planning_workload' \in Workload
  BY <1>1, RetireTypes, PlanningAfterType
<1>7. /\ remaining_workload' \in Workload
      /\ remaining_workload'.prefill_token_num
           = remaining_workload.prefill_token_num
      /\ remaining_workload'.prefill_start_offset
           = remaining_workload.prefill_start_offset
  <2>1. /\ remaining_workload \in Workload
        /\ Len(gen) \in Nat /\ Len(dr) \in Nat
    BY RetireTypes
  <2>2. QED
    BY <1>1, <2>1, RemainingType
<1>8. pending_placeholders' \in Seq(Block) /\ BlocksOrdered'
  BY <1>1, EmptySeq DEF BlocksOrdered
<1>9. QED
  BY <1>1, <1>2, <1>3, <1>4, <1>5, <1>6, <1>7, <1>8, RetireTypes DEF RetireKeeps

\* So a step that comes back keeps types and layout, whichever way.
LEMMA LayoutRetire ==
  ASSUME LayoutInv, NEW gen \in Seq(Token), NEW acc \in Seq(Token),
         NEW dr \in Seq(Token), Retire(gen, acc, dr),
         is_stopped' = (is_stopped \/ is_eos_generated'),
         UNCHANGED <<eos, recomputes>>, exec_len' \in Nat, exec_good' \in Nat
  PROVE  LayoutInv'
<1>1. RetireKeeps
  BY RetireAfterEosKeeps, RetireSplitKeeps, BackfillKeeps, OwnBlockKeeps,
     WithoutPlaceholderKeeps DEF Retire
<1>2. /\ inflight_tasks # <<>> /\ inflight_tasks' = Tail(inflight_tasks)
      /\ UNCHANGED <<prefilling_tokens, planning_task>>
  BY DEF Retire, HasInflightTask
<1>3. TokensTyped'
  BY <1>1, <1>2 DEF RetireKeeps, LayoutInv, TypeInv, TypeOK, TokensTyped
<1>4. QueuesTyped'
  <2>1. /\ inflight_tasks' \in Seq(InflightTask)
        /\ Len(inflight_tasks') = Len(inflight_tasks) - 1
        /\ Len(inflight_tasks) \in Nat
    BY <1>2, RetireTypes, HeadTailProperties
  <2>2. Len(inflight_tasks) <= max_depth /\ max_depth \in Nat
    BY DEF LayoutInv, TypeInv, TypeOK, QueuesTyped, max_depth, kMaxInflightDepth
  <2>3. Len(inflight_tasks') <= max_depth
    BY <2>1, <2>2
  <2>4. QED
    BY <1>1, <2>1, <2>3 DEF RetireKeeps, QueuesTyped, max_depth
<1>5. WorkTyped'
  BY <1>1, <1>2 DEF RetireKeeps, LayoutInv, TypeInv, TypeOK, WorkTyped
<1>6. ScalarsTyped'
  BY <1>1 DEF RetireKeeps, LayoutInv, TypeInv, TypeOK, ScalarsTyped
<1>7. RecomputeBound'
  BY <1>1 DEF RetireKeeps, LayoutInv, TypeInv, RecomputeBound
<1>8. PromptBound'
  BY <1>1, <1>2 DEF RetireKeeps, LayoutInv, TypeInv, PromptBound, ChunkEnd
<1>9. DecodePhase'
  <2>1. HasPlanningTask' = HasPlanningTask
    BY <1>2 DEF HasPlanningTask, IsEmpty, GetTokenNum
  <2>2. QED
    BY <1>1, <1>2, <2>1 DEF RetireKeeps, LayoutInv, DecodePhase
<1>10. QED
  BY <1>1, <1>3, <1>4, <1>5, <1>6, <1>7, <1>8, <1>9
     DEF RetireKeeps, LayoutInv, TypeInv, TypeOK

-----------------------------------------------------------------------------
(***************************************************************************)
(* What the executor answers.                                              *)
(***************************************************************************)

\* The answers of the oracle are sequences of tokens.
LEMMA SampleTypes ==
  ASSUME TypeInv, NEW t \in InflightTask, NEW good \in Nat
  PROVE  /\ SampledLen(t) \in Nat
         /\ Bonus(t) \in Seq(Token)
         /\ Accepted(t) \in Seq(Token)
         /\ Drafts(SampledLen(t), good) \in Seq(Token)
<1>1. exec_len \in Nat /\ exec_good \in Nat /\ eos \in Nat
  BY InferRequestAssumption DEF TypeInv, TypeOK, ScalarsTyped
<1>2. t.workload.draft_token_num \in Nat
  BY DEF InflightTask, Workload
<1>3. Verified(t) \in Nat
  BY <1>1, <1>2 DEF Verified, Min2
<1>4. SampledLen(t) \in Nat
  BY <1>1, <1>3 DEF SampledLen
<1>5. Bonus(t) \in Seq(Token)
  BY <1>4 DEF Bonus, Token
<1>6. Accepted(t) \in Seq(Token)
  <2> DEFINE n == Min2(Verified(t), SampledLen(t) - exec_len)
             a == Accepted(t)
  <2>1. n \in Int
    BY <1>1, <1>3, <1>4 DEF Min2
  <2>2. a = [i \in 1..n |-> a[i]] /\ \A i \in 1..n : a[i] \in Token
    BY <1>1, <2>1 DEF Accepted, Token
  <2> HIDE DEF n, a
  <2>3. a \in Seq(Token)
    BY <2>1, <2>2, FunctionIsSeq
  <2>4. QED
    BY <2>3 DEF a
<1>7. Drafts(SampledLen(t), good) \in Seq(Token)
  <2> DEFINE len == SampledLen(t)
             a == Drafts(len, good)
  <2>1. len \in Nat
    BY <1>4
  <2> HIDE DEF len
  <2>2. a = [i \in 1..MtpStepNum |-> a[i]]
        /\ \A i \in 1..MtpStepNum : a[i] \in Token
    BY <2>1, InferRequestAssumption DEF Drafts, Token, Wrong
  <2> HIDE DEF a
  <2>3. a \in Seq(Token)
    BY <2>2, FunctionIsSeq, InferRequestAssumption
  <2>4. QED
    BY <2>3 DEF a, len
<1>8. QED
  BY <1>4, <1>5, <1>6, <1>7

\* A finished step keeps types and layout.
LEMMA LayoutFinish ==
  ASSUME LayoutInv, NEW good \in 0..MtpStepNum, FinishStep(good)
  PROVE  LayoutInv'
<1> DEFINE t == Head(inflight_tasks)
<1>1. /\ is_stopped' = (is_stopped \/ is_eos_generated')
      /\ UNCHANGED <<eos, recomputes>>
  BY DEF FinishStep
<1>2. t \in InflightTask
  BY RetireTypes, HeadTailProperties DEF FinishStep, HasInflightTask
<1>3. good \in Nat
  BY InferRequestAssumption
<1>4. CASE Samples(t) /\ ~is_eos_generated
  <2>1. /\ Retire(Bonus(t), Accepted(t), Drafts(SampledLen(t), good))
        /\ exec_len' = SampledLen(t) /\ exec_good' = good
    BY <1>4 DEF FinishStep
  <2>2. /\ SampledLen(t) \in Nat /\ Bonus(t) \in Seq(Token)
        /\ Accepted(t) \in Seq(Token)
        /\ Drafts(SampledLen(t), good) \in Seq(Token)
    BY <1>2, <1>3, SampleTypes DEF LayoutInv
  <2>3. QED
    BY <1>1, <1>3, <2>1, <2>2, LayoutRetire
<1>5. CASE ~(Samples(t) /\ ~is_eos_generated)
  <2>1. Retire(<<>>, <<>>, <<>>) /\ UNCHANGED <<exec_len, exec_good>>
    BY <1>5 DEF FinishStep
  <2>2. exec_len' \in Nat /\ exec_good' \in Nat
    BY <2>1 DEF LayoutInv, TypeInv, TypeOK, ScalarsTyped
  <2>3. <<>> \in Seq(Token)
    BY EmptySeq
  <2>4. QED
    BY <1>1, <2>1, <2>2, <2>3, LayoutRetire
<1>6. QED
  BY <1>4, <1>5

-----------------------------------------------------------------------------
(***************************************************************************)
(* Block pressure.                                                         *)
(***************************************************************************)

\* A stopped request can still be recomputed once.
LEMMA LayoutStop ==
  ASSUME LayoutInv, Stop
  PROVE  LayoutInv'
<1>1. /\ UNCHANGED <<pipeline, planning_task, planning_workload,
                     remaining_workload, executor>>
      /\ is_stopped' = TRUE /\ recomputes < MaxRecompute
  BY DEF Stop
<1>2. TypeOK'
  BY <1>1 DEF LayoutInv, TypeInv, TypeOK, TokensTyped, QueuesTyped, WorkTyped,
              ScalarsTyped, pipeline, executor, max_depth
<1>3. RecomputeBound'
  BY <1>1 DEF RecomputeBound, executor
<1>4. PromptBound'
  BY <1>1 DEF LayoutInv, TypeInv, PromptBound, ChunkEnd, pipeline
<1>5. HasPlanningTask' = HasPlanningTask
  BY <1>1 DEF HasPlanningTask, IsEmpty, GetTokenNum
<1>6. DecodePhase' /\ BlocksOrdered'
  BY <1>1, <1>5 DEF LayoutInv, DecodePhase, BlocksOrdered, pipeline
<1>7. QED
  BY <1>2, <1>3, <1>4, <1>6 DEF LayoutInv, TypeInv

\* A resumed request has one recomputation less to go.
LEMMA RecomputesType ==
  ASSUME TypeInv, is_stopped, ~is_eos_generated, recomputes' = recomputes + 1
  PROVE  recomputes' \in 0..MaxRecompute
BY InferRequestAssumption DEF TypeInv, TypeOK, ScalarsTyped, RecomputeBound

\* A request that has nothing planned and no block is in good order.
LEMMA NothingPlanned ==
  ASSUME planning_task = NoTask
  PROVE  ~HasPlanningTask /\ planning_task.workload.prefill_token_num = 0
BY DEF HasPlanningTask, IsEmpty, GetTokenNum, NoTask, NoWork, DecodeWork

\* A recomputed request starts like a new one.
LEMMA LayoutRecompute ==
  ASSUME LayoutInv, Recompute
  PROVE  LayoutInv'
<1>1. /\ prefilling_tokens' = output_tokens /\ UNCHANGED output_tokens
      /\ forwarding_tokens' = <<>> /\ generated_tokens' = <<>>
      /\ accepted_tokens' = <<>> /\ draft_tokens' = <<>>
      /\ kv_cached_token_num' = 0 /\ forwarding_tokens_draft_num' = 0
      /\ infer_stage' = "context" /\ inflight_tasks' = <<>>
      /\ pending_placeholders' = <<>> /\ planning_task' = NoTask
      /\ planning_workload' = PrefillWork(Len(output_tokens), 0)
      /\ remaining_workload' = PrefillWork(Len(output_tokens), 0)
      /\ is_eos_generated' = FALSE /\ is_stopped' = FALSE
      /\ exec_len' = Len(output_tokens) /\ exec_good' = 0
      /\ recomputes' = recomputes + 1 /\ UNCHANGED eos
      /\ is_stopped /\ ~is_eos_generated
  BY DEF Recompute, ResetPrefillingTokens
<1>2. output_tokens \in Seq(Token) /\ Len(output_tokens) \in Nat
  BY RetireTypes
<1>3. TokensTyped'
  BY <1>1, <1>2, EmptySeq DEF TokensTyped
<1>4. QueuesTyped'
  <2>1. 0 <= max_depth
    BY DEF max_depth, kMaxInflightDepth
  <2>2. QED
    BY <1>1, <2>1, EmptySeq DEF QueuesTyped, max_depth
<1>5. WorkTyped'
  BY <1>1, <1>2, WorkTypes DEF WorkTyped
<1>6. ScalarsTyped'
  <2>1. recomputes' \in 0..MaxRecompute
    BY <1>1, RecomputesType DEF LayoutInv
  <2>2. QED
    BY <1>1, <1>2, <2>1 DEF ScalarsTyped, LayoutInv, TypeInv, TypeOK
<1>7. RecomputeBound'
  BY <1>1 DEF RecomputeBound
<1>8. PromptBound'
  <2>1. ChunkEnd(remaining_workload') = Len(prefilling_tokens')
    BY <1>1, <1>2, PrefillEnd
  <2>2. ~(planning_task'.workload.prefill_token_num > 0)
    BY <1>1 DEF NoTask, NoWork, DecodeWork
  <2>3. QED
    BY <2>1, <2>2 DEF PromptBound, ChunkEnd
<1>9. DecodePhase'
  BY <1>1 DEF DecodePhase, HasPlanningTask, IsEmpty, GetTokenNum, NoTask, NoWork,
              DecodeWork
<1>10. BlocksOrdered'
  BY <1>1, EmptySeq DEF BlocksOrdered
<1>11. QED
  BY <1>3, <1>4, <1>5, <1>6, <1>7, <1>8, <1>9, <1>10 DEF LayoutInv, TypeInv, TypeOK

\* A recovered request keeps what it has.
LEMMA LayoutRecover ==
  ASSUME LayoutInv, Recover
  PROVE  LayoutInv'
<1>1. /\ UNCHANGED <<pipeline, planning_workload, remaining_workload,
                     eos, exec_len, exec_good>>
      /\ planning_task' = NoTask /\ is_stopped' = FALSE
      /\ recomputes' = recomputes + 1
      /\ is_stopped /\ ~is_eos_generated
  BY DEF Recover
<1>2. TokensTyped' /\ QueuesTyped' /\ WorkTyped'
  BY <1>1, WorkTypes DEF LayoutInv, TypeInv, TypeOK, TokensTyped, QueuesTyped,
                         WorkTyped, pipeline, max_depth
<1>3. ScalarsTyped'
  <2>1. recomputes' \in 0..MaxRecompute
    BY <1>1, RecomputesType DEF LayoutInv
  <2>2. QED
    BY <1>1, <2>1 DEF ScalarsTyped, LayoutInv, TypeInv, TypeOK, pipeline
<1>4. RecomputeBound'
  BY <1>1 DEF RecomputeBound
<1>5. /\ ~HasPlanningTask'
      /\ planning_task'.workload.prefill_token_num = 0
  BY <1>1 DEF HasPlanningTask, IsEmpty, GetTokenNum, NoTask, NoWork, DecodeWork
<1>6. PromptBound'
  BY <1>1, <1>5 DEF LayoutInv, TypeInv, PromptBound, ChunkEnd, pipeline
<1>7. DecodePhase' /\ BlocksOrdered'
  BY <1>1, <1>5 DEF LayoutInv, DecodePhase, BlocksOrdered, pipeline
<1>8. QED
  BY <1>2, <1>3, <1>4, <1>6, <1>7 DEF LayoutInv, TypeInv, TypeOK

-----------------------------------------------------------------------------
(***************************************************************************)
(* Type correctness.                                                       *)
(***************************************************************************)

\* A new request has no block.
LEMMA LayoutInit == Init => LayoutInv
<1> SUFFICES ASSUME Init PROVE LayoutInv
  OBVIOUS
<1>1. TypeInv
  BY TypeInit
<1>2. planning_task = NoTask /\ pending_placeholders = <<>>
  BY DEF Init
<1>3. DecodePhase /\ BlocksOrdered
  BY <1>2, NothingPlanned, EmptySeq DEF DecodePhase, BlocksOrdered
<1>4. QED
  BY <1>1, <1>3 DEF LayoutInv

\* A stutter keeps types and layout.
LEMMA LayoutStutter ==
  ASSUME LayoutInv, UNCHANGED vars
  PROVE  LayoutInv'
<1>1. UNCHANGED <<pipeline, planning_task, planning_workload,
                  remaining_workload, is_stopped, executor>>
  BY DEF vars, request
<1>2. TypeOK'
  BY <1>1 DEF LayoutInv, TypeInv, TypeOK, TokensTyped, QueuesTyped, WorkTyped,
              ScalarsTyped, pipeline, executor, max_depth
<1>3. RecomputeBound' /\ PromptBound'
  BY <1>1 DEF LayoutInv, TypeInv, RecomputeBound, PromptBound, ChunkEnd,
              pipeline, executor
<1>4. HasPlanningTask' = HasPlanningTask
  BY <1>1 DEF HasPlanningTask, IsEmpty, GetTokenNum
<1>5. DecodePhase' /\ BlocksOrdered'
  BY <1>1, <1>4 DEF LayoutInv, DecodePhase, BlocksOrdered, pipeline
<1>6. QED
  BY <1>2, <1>3, <1>5 DEF LayoutInv, TypeInv

\* One step per action.
LEMMA LayoutNext == LayoutInv /\ [Next]_vars => LayoutInv'
<1> SUFFICES ASSUME LayoutInv, [Next]_vars PROVE LayoutInv'
  OBVIOUS
<1>1. TypeInv
  BY DEF LayoutInv
<1>2. ASSUME NEW n \in 1..Len(prefilling_tokens), PrefixCacheHit(n)
      PROVE  LayoutInv'
  BY <1>1, <1>2, TypePrefixCacheHit, LayoutPlanning DEF LayoutInv
<1>3. ASSUME NEW n \in 0..MtpStepNum, SetInflightTaskGenResultEstimation(n)
      PROVE  LayoutInv'
  BY <1>1, <1>3, TypeEstimation, LayoutPlanning DEF LayoutInv
<1>4. ASSUME NEW n \in 1..Len(prefilling_tokens), PlanPrefill(n)
      PROVE  LayoutInv'
  BY <1>1, <1>4, TypePlan, LayoutPlanning DEF LayoutInv
<1>5. CASE PlanDecode
  BY <1>1, <1>5, TypePlan, LayoutPlanning DEF LayoutInv
<1>6. CASE LaunchPlanningTask
  BY <1>1, <1>6, TypeLaunch, LayoutLaunch DEF LayoutInv
<1>7. ASSUME NEW good \in 0..MtpStepNum, FinishStep(good)
      PROVE  LayoutInv'
  BY <1>7, LayoutFinish
<1>8. CASE Stop
  BY <1>8, LayoutStop
<1>9. CASE Recompute
  BY <1>9, LayoutRecompute
<1>10. CASE Recover
  BY <1>10, LayoutRecover
<1>11. CASE Idle \/ UNCHANGED vars
  BY <1>11, LayoutStutter DEF Idle
<1>12. QED
  BY <1>2, <1>3, <1>4, <1>5, <1>6, <1>7, <1>8, <1>9, <1>10, <1>11 DEF Next

\* The blocks of placeholders lie in forwarding_tokens one behind the other,
\* only while no part of the prompt is left to launch: the KLLM_CHECKs on their
\* range in TryRetireBackfillNextPlaceholderBlock and
\* RetireOwnPlaceholderBlockAndShift cannot fail, whatever the scheduler and
\* the executor do.
THEOREM LayoutCorrect == Spec => []LayoutInv
<1>1. QED
  BY LayoutInit, LayoutNext, PTL DEF Spec

\* Every variable has its type, and no request is launched deeper than its mode
\* allows.
THEOREM TypeCorrect == Spec => []TypeOK
<1>1. LayoutInv => TypeOK
  BY DEF LayoutInv, TypeInv
<1>2. QED
  BY <1>1, LayoutCorrect, PTL

-----------------------------------------------------------------------------
(***************************************************************************)
(* The text.                                                               *)
(*                                                                         *)
(* PromptPartition holds as it is.  The others need what a bubble breaks   *)
(* (the run bubble_text shows it): on the fast path the next step is       *)
(* launched before the only one in flight retires.  That is the hypothesis *)
(* AheadOfTime.  Under it a request that has not ended is in one of five   *)
(* shapes, which say of every token of forwarding_tokens what it is and of *)
(* every placeholder block to which step it belongs:                       *)
(*                                                                         *)
(*   Prompting   chunks of the prompt are launched one behind the other    *)
(*   FirstAhead  the last chunk, and behind it a block that is empty       *)
(*   OneStep     one decode step, its block filled                         *)
(*   TwoSteps    and another one behind it, whose block is empty           *)
(*   Drained     none (the slow path, or a request that was stopped)       *)
(*                                                                         *)
(* Every property of the request is read off the shapes.                   *)
(***************************************************************************)

AheadOfTime == FastPath => ~Bubbles

-----------------------------------------------------------------------------
(***************************************************************************)
(* The prompt and its chunks.                                              *)
(***************************************************************************)

IsChunk(w) == w.prefill_token_num > 0

\* Where the next chunk starts, and whether there is one left to launch.
NextStart ==
  IF IsChunk(planning_task.workload)
    THEN planning_task.workload.prefill_start_offset
    ELSE remaining_workload.prefill_start_offset

PromptLaunched ==
  /\ ~IsChunk(planning_task.workload)
  /\ remaining_workload.prefill_token_num = 0

\* The chunks in flight follow each other, and the next one follows them.
ChunksTile ==
  /\ IsChunk(planning_task.workload)
       => /\ ChunkEnd(planning_task.workload)
               = remaining_workload.prefill_start_offset
          /\ planning_task.workload.draft_token_num = 0
  /\ HasInflightTask /\ ~PromptLaunched
       => NextStart = ChunkEnd(Last(inflight_tasks).workload)
  /\ \A i \in 1..Len(inflight_tasks) :
       LET t == inflight_tasks[i]
       IN  IsChunk(t.workload) =>
             /\ t.len = ChunkEnd(t.workload) + t.workload.draft_token_num
             /\ t.kv = t.workload.prefill_start_offset
             /\ i > 1 => t.workload.prefill_start_offset
                           = ChunkEnd(inflight_tasks[i - 1].workload)

PartInv == LayoutInv /\ ChunksTile

\* A decode step that is planned, or that the scheduler would plan, forwards a
\* main token and at most as many drafts as the executor proposes.
OneDecode(w) == w.generated_token_num = 1 /\ w.draft_token_num <= MtpStepNum

WorkInv ==
  /\ HasPlanningTask /\ ~IsChunk(planning_task.workload)
       => OneDecode(planning_task.workload)
  /\ ~is_eos_generated /\ ~IsChunk(planning_workload) /\ ~IsEmpty(planning_workload)
       => OneDecode(planning_workload)

-----------------------------------------------------------------------------
(***************************************************************************)
(* The text.                                                               *)
(***************************************************************************)

out == Len(output_tokens)
fwd == Len(forwarding_tokens)

OutputInv ==
  /\ OutputIsText
  /\ out > 0
  /\ is_eos_generated => is_stopped
  /\ exec_len = out
  /\ exec_good <= MtpStepNum

\* The three kinds of steps in flight.
MidStep(t) ==
  /\ t.kind = "prefill_chunk_mid"
  /\ IsChunk(t.workload) /\ ChunkEnd(t.workload) < Len(prefilling_tokens)
  /\ t.workload.draft_token_num = 0
  /\ t.sampling_token_num = 0 /\ ~t.placeholder

LastStep(t) ==
  /\ t.kind = "prefill"
  /\ IsChunk(t.workload) /\ ChunkEnd(t.workload) = Len(prefilling_tokens)
  /\ t.workload.draft_token_num = 0
  /\ t.sampling_token_num = 1 /\ ~t.placeholder

DecodeStep(t) ==
  /\ t.kind = "decode"
  /\ t.workload.prefill_token_num = 0 /\ OneDecode(t.workload)
  /\ t.sampling_token_num = 1 + t.workload.draft_token_num
  /\ t.placeholder = FastPath
  /\ t.len = t.kv + 1 + t.workload.draft_token_num

\* The first n tokens to forward are the text; or the text as far as the client
\* has it, then drafts, of which the first exec_good are right; or still empty.
ForwardsText(n) == \A i \in 1..n : forwarding_tokens[i] = i

IsTextAndDrafts(n) ==
  \A i \in 1..n :
    forwarding_tokens[i] = IF i <= out + exec_good THEN i ELSE Wrong

IsEmptyFrom(n) ==
  \A i \in (n + 1)..fwd : forwarding_tokens[i] = kFastPathPlaceholderTokenId

\* The block of step t, when its main token stands at the 0-based position pos.
BlockOf(t, pos) == [pos |-> pos, draft |-> t.workload.draft_token_num]

-----------------------------------------------------------------------------
(***************************************************************************)
(* The five shapes.                                                        *)
(***************************************************************************)

Prompting ==
  /\ infer_stage = "context" /\ ~is_stopped
  /\ pending_placeholders = <<>>
  /\ generated_tokens = <<>> /\ draft_tokens = <<>>
  /\ forwarding_tokens_draft_num = 0
  /\ prefilling_tokens = output_tokens
  /\ ForwardsText(fwd)
  /\ \A i \in 1..Len(inflight_tasks) :
       MidStep(inflight_tasks[i]) \/ LastStep(inflight_tasks[i])
  /\ \/ inflight_tasks = <<>> /\ forwarding_tokens = <<>>
     \/ fwd = NextStart
  /\ PromptLaunched
       => inflight_tasks # <<>> /\ LastStep(inflight_tasks[Len(inflight_tasks)])

FirstAhead ==
  LET t == inflight_tasks[2]
  IN  /\ infer_stage = "context" /\ ~is_stopped /\ FastPath /\ PromptLaunched
      /\ generated_tokens = <<>>
      /\ prefilling_tokens = output_tokens
      /\ Len(inflight_tasks) = 2 /\ LastStep(inflight_tasks[1]) /\ DecodeStep(t)
      /\ pending_placeholders = <<BlockOf(t, out)>>
      /\ kv_cached_token_num = out
      /\ fwd = out + 1 + t.workload.draft_token_num
      /\ ForwardsText(out) /\ IsEmptyFrom(out)

OneStep ==
  LET t == inflight_tasks[1]
  IN  /\ infer_stage = "decode" /\ PromptLaunched
      /\ Len(inflight_tasks) = 1 /\ DecodeStep(t)
      /\ fwd = out + t.workload.draft_token_num
      /\ IsTextAndDrafts(fwd)
      /\ FastPath => /\ generated_tokens = <<>>
                     /\ pending_placeholders = <<BlockOf(t, out - 1)>>
                     /\ kv_cached_token_num = out - 1
      /\ ~FastPath => /\ pending_placeholders = <<>>
                      /\ forwarding_tokens_draft_num = t.workload.draft_token_num

TwoSteps ==
  LET t == inflight_tasks[1]
      u == inflight_tasks[2]
      end == out + t.workload.draft_token_num
  IN  /\ infer_stage = "decode" /\ FastPath /\ PromptLaunched
      /\ generated_tokens = <<>>
      /\ Len(inflight_tasks) = 2 /\ DecodeStep(t) /\ DecodeStep(u)
      /\ pending_placeholders = <<BlockOf(t, out - 1), BlockOf(u, end)>>
      /\ kv_cached_token_num = end
      /\ fwd = end + 1 + u.workload.draft_token_num
      /\ IsTextAndDrafts(end) /\ IsEmptyFrom(end)

Drained ==
  /\ infer_stage = "decode" /\ PromptLaunched
  /\ inflight_tasks = <<>> /\ pending_placeholders = <<>>
  /\ fwd = out - 1 /\ ForwardsText(fwd)
  /\ kv_cached_token_num = fwd
  /\ FastPath => is_stopped
  /\ ~FastPath => /\ generated_tokens = <<out>>
                  /\ draft_tokens = Drafts(out, exec_good)

\* Behind the stop token only the fast path has a step left, with its block.
Ended ==
  \/ inflight_tasks = <<>> /\ pending_placeholders = <<>>
  \/ LET t == inflight_tasks[1]
     IN  /\ Len(inflight_tasks) = 1 /\ DecodeStep(t) /\ FastPath
         /\ pending_placeholders
              = <<BlockOf(t, fwd - (1 + t.workload.draft_token_num))>>

ShapeInv ==
  IF is_eos_generated THEN Ended
  ELSE Prompting \/ FirstAhead \/ OneStep \/ TwoSteps \/ Drained

\* On the slow path what was planned for is never longer than planned.
PlannedInv ==
  /\ IsChunk(planning_task.workload)
       => planning_task.planned_len >= ChunkEnd(planning_task.workload)
  /\ ~FastPath /\ HasPlanningTask /\ ~IsChunk(planning_task.workload)
       => planning_task.planned_len
            >= fwd + 1 + planning_task.workload.draft_token_num
  /\ ~FastPath => PlanningLenCoversLaunch

TextInv == PartInv /\ WorkInv /\ OutputInv /\ ShapeInv

-----------------------------------------------------------------------------
(***************************************************************************)
(* Sequences.                                                              *)
(***************************************************************************)

\* Concatenation, element by element.
LEMMA ConcatElements ==
  ASSUME NEW s \in Seq(Token), NEW t \in Seq(Token)
  PROVE  /\ s \o t \in Seq(Token) /\ Len(s \o t) = Len(s) + Len(t)
         /\ \A i \in 1..Len(s) : (s \o t)[i] = s[i]
         /\ \A i \in 1..Len(t) : (s \o t)[Len(s) + i] = t[i]
<1>1. /\ s \o t \in Seq(Token)
      /\ Len(s \o t) = Len(s) + Len(t)
      /\ \A i \in 1..(Len(s) + Len(t)) :
           (s \o t)[i] = IF i <= Len(s) THEN s[i] ELSE t[i - Len(s)]
  BY ConcatProperties
<1>2. Len(s) \in Nat /\ Len(t) \in Nat
  BY LenProperties
<1>3. ASSUME NEW i \in 1..Len(s) PROVE (s \o t)[i] = s[i]
  BY <1>1, <1>2
<1>4. ASSUME NEW i \in 1..Len(t) PROVE (s \o t)[Len(s) + i] = t[i]
  <2>1. /\ Len(s) + i \in 1..(Len(s) + Len(t)) /\ ~(Len(s) + i <= Len(s))
        /\ (Len(s) + i) - Len(s) = i
    BY <1>2
  <2> QED BY <1>1, <2>1
<1> QED BY <1>1, <1>3, <1>4

\* The beginning of a sequence.
LEMMA PrefixElements ==
  ASSUME NEW s \in Seq(Token), NEW n \in 0..Len(s)
  PROVE  /\ SubSeq(s, 1, n) \in Seq(Token) /\ Len(SubSeq(s, 1, n)) = n
         /\ \A i \in 1..n : SubSeq(s, 1, n)[i] = s[i]
<1>1. \A i \in 1..n : s[i] \in Token
  BY ElementOfSeq, LenProperties
<1>2. n \in Int /\ 1 \in Int /\ n >= 0
  BY LenProperties
<1>3. /\ SubSeq(s, 1, n) \in Seq(Token)
      /\ Len(SubSeq(s, 1, n)) = IF 1 <= n THEN n - 1 + 1 ELSE 0
      /\ \A i \in 1..(n - 1 + 1) : SubSeq(s, 1, n)[i] = s[1 + i - 1]
  BY <1>1, <1>2, SubSeqProperties
<1> QED BY <1>2, <1>3

\* The end of a sequence.
LEMMA SuffixElements ==
  ASSUME NEW s \in Seq(Token), NEW m \in 0..Len(s), NEW n \in m..Len(s)
  PROVE  /\ SubSeq(s, m + 1, n) \in Seq(Token)
         /\ Len(SubSeq(s, m + 1, n)) = n - m
         /\ \A i \in 1..(n - m) : SubSeq(s, m + 1, n)[i] = s[m + i]
<1>1. Len(s) \in Nat /\ m \in Nat /\ n \in Nat /\ n >= m /\ n <= Len(s)
  BY LenProperties
<1>2. \A i \in (m + 1)..n : s[i] \in Token
  BY <1>1, ElementOfSeq
<1>3. /\ SubSeq(s, m + 1, n) \in Seq(Token)
      /\ Len(SubSeq(s, m + 1, n)) = IF m + 1 <= n THEN n - (m + 1) + 1 ELSE 0
      /\ \A i \in 1..(n - (m + 1) + 1) :
           SubSeq(s, m + 1, n)[i] = s[m + 1 + i - 1]
  BY <1>1, <1>2, SubSeqProperties
<1> QED BY <1>1, <1>3

\* The text of n tokens.
LEMMA UptoElements ==
  ASSUME NEW n \in Nat
  PROVE  /\ Upto(n) \in Seq(Token) /\ Len(Upto(n)) = n
         /\ \A i \in 1..n : Upto(n)[i] = i
BY UptoType DEF Upto

\* A sequence that holds i at every position i is the text.
LEMMA IsUpto ==
  ASSUME NEW s \in Seq(Token), NEW n \in Nat, Len(s) = n,
         \A i \in 1..n : s[i] = i
  PROVE  s = Upto(n)
<1>1. s = [i \in 1..n |-> s[i]]
  BY LenProperties
<1> QED BY <1>1 DEF Upto

\* A queue after an append.
LEMMA AppendElements ==
  ASSUME NEW S, NEW q \in Seq(S), NEW x \in S
  PROVE  /\ Append(q, x) \in Seq(S) /\ Len(Append(q, x)) = Len(q) + 1
         /\ Append(q, x) # <<>>
         /\ \A i \in 1..Len(q) : Append(q, x)[i] = q[i]
         /\ Append(q, x)[Len(q) + 1] = x
BY AppendProperties, LenProperties, EmptySeq

\* Two elements, one appended to the other.
LEMMA AppendToOne ==
  ASSUME NEW x, NEW y
  PROVE  Append(<<x>>, y) = <<x, y>>
<1> DEFINE S == {x, y}
           q == <<x>>
<1>1. q \in Seq(S) /\ Len(q) = 1 /\ q[1] = x /\ y \in S
  OBVIOUS
<1>2. /\ Append(q, y) \in Seq(S) /\ Len(Append(q, y)) = 2
      /\ Append(q, y)[1] = x /\ Append(q, y)[2] = y
  <2>1. \A i \in 1..Len(q) : Append(q, y)[i] = q[i]
    BY <1>1, AppendElements
  <2>2. Append(q, y) \in Seq(S) /\ Len(Append(q, y)) = Len(q) + 1
        /\ Append(q, y)[Len(q) + 1] = y
    BY <1>1, AppendElements
  <2> HIDE DEF q
  <2> QED BY <1>1, <2>1, <2>2
<1> DEFINE r == Append(q, y)
<1>3. r = [i \in 1..2 |-> r[i]]
  BY <1>2
<1> HIDE DEF r
<1>4. \A i \in 1..2 : r[i] = <<x, y>>[i]
  BY <1>2 DEF r
<1>5. r = <<x, y>>
  BY <1>3, <1>4
<1> QED BY <1>5 DEF r, q

\* A queue of which the oldest element is taken.
LEMMA TailElements ==
  ASSUME NEW S, NEW q \in Seq(S), q # <<>>
  PROVE  /\ Tail(q) \in Seq(S) /\ Len(q) \in Nat /\ Len(q) >= 1
         /\ Len(Tail(q)) = Len(q) - 1
         /\ \A i \in 1..(Len(q) - 1) : Tail(q)[i] = q[i + 1]
         /\ Head(q) = q[1] /\ Head(q) \in S
         /\ Len(q) = 1 => Tail(q) = <<>>
<1>1. Len(q) \in Nat /\ Len(q) >= 1
  BY EmptySeq
<1>2. /\ Tail(q) \in Seq(S) /\ Head(q) \in S
      /\ Len(Tail(q)) = Len(q) - 1
      /\ \A i \in 1..(Len(q) - 1) : Tail(q)[i] = q[i + 1]
  BY HeadTailProperties
<1>3. Head(q) = q[1]
  OBVIOUS
<1>4. Len(q) = 1 => Tail(q) = <<>>
  <2>1. Tail(q) # <<>> => Len(Tail(q)) \in Nat \ {0}
    BY <1>2, EmptySeq
  <2>2. Len(q) = 1 => Len(Tail(q)) = 0
    BY <1>2
  <2> QED BY <2>1, <2>2
<1> QED BY <1>1, <1>2, <1>3, <1>4

-----------------------------------------------------------------------------
(***************************************************************************)
(* Types.                                                                  *)
(***************************************************************************)

\* The numbers of a workload.
LEMMA WorkloadFields ==
  ASSUME NEW w \in Workload
  PROVE  /\ w.prefill_token_num \in Nat /\ w.prefill_start_offset \in Nat
         /\ w.generated_token_num \in Nat /\ w.draft_token_num \in Nat
BY DEF Workload

\* The types of the variables, as later steps use them.
LEMMA StateTypes ==
  ASSUME LayoutInv
  PROVE  /\ output_tokens \in Seq(Token) /\ prefilling_tokens \in Seq(Token)
         /\ forwarding_tokens \in Seq(Token) /\ generated_tokens \in Seq(Token)
         /\ accepted_tokens \in Seq(Token) /\ draft_tokens \in Seq(Token)
         /\ inflight_tasks \in Seq(InflightTask)
         /\ pending_placeholders \in Seq(Block)
         /\ planning_task.workload \in Workload /\ planning_task.planned_len \in Nat
         /\ planning_workload \in Workload /\ remaining_workload \in Workload
         /\ ChunkEnd(remaining_workload) = Len(prefilling_tokens)
BY DEF LayoutInv, TypeInv, TypeOK, TokensTyped, QueuesTyped, WorkTyped,
       PlannedTask, PromptBound

\* The numbers of a state.
LEMMA StateNumbers ==
  ASSUME LayoutInv
  PROVE  /\ Len(output_tokens) \in Nat /\ Len(prefilling_tokens) \in Nat
         /\ Len(forwarding_tokens) \in Nat /\ Len(generated_tokens) \in Nat
         /\ Len(draft_tokens) \in Nat /\ Len(inflight_tasks) \in Nat
         /\ Len(pending_placeholders) \in Nat
         /\ Len(inflight_tasks) <= max_depth
         /\ forwarding_tokens_draft_num \in Nat /\ kv_cached_token_num \in Nat
         /\ exec_len \in Nat /\ exec_good \in Nat /\ MtpStepNum \in Nat
         /\ eos \in Nat /\ PromptLen \in Nat /\ eos > PromptLen /\ PromptLen >= 1
         /\ is_eos_generated \in BOOLEAN /\ is_stopped \in BOOLEAN
         /\ FastPath \in BOOLEAN
<1>1. /\ Len(output_tokens) \in Nat /\ Len(prefilling_tokens) \in Nat
      /\ Len(forwarding_tokens) \in Nat /\ Len(generated_tokens) \in Nat
      /\ Len(draft_tokens) \in Nat /\ Len(inflight_tasks) \in Nat
      /\ Len(pending_placeholders) \in Nat
  BY StateTypes, LenProperties
<1>2. /\ Len(inflight_tasks) <= max_depth
      /\ forwarding_tokens_draft_num \in Nat /\ kv_cached_token_num \in Nat
      /\ exec_len \in Nat /\ exec_good \in Nat
      /\ is_eos_generated \in BOOLEAN /\ is_stopped \in BOOLEAN
      /\ eos \in EosPositions
  BY DEF LayoutInv, TypeInv, TypeOK, QueuesTyped, ScalarsTyped
<1>3. /\ MtpStepNum \in Nat /\ eos \in Nat /\ PromptLen \in Nat
      /\ eos > PromptLen /\ PromptLen >= 1 /\ FastPath \in BOOLEAN
  BY <1>2, InferRequestAssumption
<1> QED BY <1>1, <1>2, <1>3

\* The fields of a step in flight.
LEMMA StepFields ==
  ASSUME NEW t \in InflightTask
  PROVE  /\ t.workload \in Workload /\ t.kv \in Nat /\ t.len \in Nat
         /\ t.sampling_token_num \in Nat /\ t.planned_len \in Nat
         /\ t.workload.draft_token_num \in Nat
         /\ t.workload.prefill_token_num \in Nat
         /\ t.workload.generated_token_num \in Nat
         /\ t.workload.prefill_start_offset \in Nat
         /\ ChunkEnd(t.workload) \in Nat
BY DEF InflightTask, Workload, ChunkEnd

-----------------------------------------------------------------------------
(***************************************************************************)
(* What a launch does.                                                     *)
(***************************************************************************)

\* The step that LaunchPlanningTask appends.
NewStep == inflight_tasks'[Len(inflight_tasks) + 1]

\* A chunk: the tokens before it, the chunk, and behind the last one the drafts.
LEMMA LaunchPrefillEffect ==
  ASSUME PartInv, HasInflightCapacity, LaunchPrefill
  PROVE  LET w == planning_task.workload
             start == w.prefill_start_offset
             end == ChunkEnd(w)
             last_chunk == end = Len(prefilling_tokens)
             drafts == IF last_chunk THEN draft_tokens ELSE <<>>
             t == NewStep
         IN  /\ IsChunk(w) /\ start \in Nat /\ end \in Nat
             /\ start < end /\ end <= Len(prefilling_tokens)
             /\ inflight_tasks' = Append(inflight_tasks, t) /\ t \in InflightTask
             /\ t.workload.prefill_token_num = w.prefill_token_num
             /\ t.workload.prefill_start_offset = start
             /\ t.workload.draft_token_num = Len(drafts)
             /\ t.kind = IF last_chunk THEN "prefill" ELSE "prefill_chunk_mid"
             /\ t.sampling_token_num = IF last_chunk THEN 1 + Len(drafts) ELSE 0
             /\ ~t.placeholder /\ t.planned_len = planning_task.planned_len
             /\ t.len = end + Len(drafts) /\ t.kv = start
             /\ Len(forwarding_tokens') = end + Len(drafts)
             /\ \A i \in 1..end : forwarding_tokens'[i] =
                  IF i <= start /\ Len(forwarding_tokens) = start
                    THEN forwarding_tokens[i] ELSE prefilling_tokens[i]
             /\ forwarding_tokens_draft_num' = Len(drafts)
             /\ UNCHANGED <<draft_tokens, pending_placeholders>>
<1> DEFINE w == planning_task.workload
           start == w.prefill_start_offset
           n == w.prefill_token_num + start
           end == ChunkEnd(w)
           last_chunk == n >= Len(prefilling_tokens)
           prefix == IF Len(forwarding_tokens) = start
                       THEN forwarding_tokens
                       ELSE SubSeq(prefilling_tokens, 1, start)
           chunk == SubSeq(prefilling_tokens, start + 1, n)
           drafts == IF last_chunk THEN draft_tokens ELSE <<>>
           body == prefix \o chunk
           new == body \o drafts
           done == IF last_chunk
                     THEN [w EXCEPT !.draft_token_num = Len(draft_tokens)] ELSE w
           kind == IF last_chunk THEN "prefill" ELSE "prefill_chunk_mid"
           t == Launched(done, kind, new, Len(prefix), FALSE)
<1>1. /\ w \in Workload /\ w.prefill_token_num \in Nat /\ start \in Nat
      /\ w.prefill_token_num > 0 /\ w.draft_token_num = 0
      /\ Len(prefilling_tokens) \in Nat
  BY StateTypes, WorkloadFields, StateNumbers
     DEF PartInv, LaunchPrefill, ChunksTile, IsChunk
<1>2. end = n /\ n \in Nat /\ start < n /\ n <= Len(prefilling_tokens)
  <2>1. end = n
    BY <1>1 DEF ChunkEnd
  <2>2. end <= Len(prefilling_tokens)
    BY <1>1 DEF PartInv, LayoutInv, TypeInv, PromptBound
  <2> QED BY <1>1, <2>1, <2>2
<1>3. last_chunk <=> end = Len(prefilling_tokens)
  BY <1>1, <1>2
<1>4. /\ forwarding_tokens' = new /\ forwarding_tokens_draft_num' = done.draft_token_num
      /\ inflight_tasks' = Append(inflight_tasks, t)
      /\ UNCHANGED <<draft_tokens, pending_placeholders>>
  BY DEF LaunchPrefill
<1>5. /\ prefix \in Seq(Token) /\ Len(prefix) = start
      /\ \A i \in 1..start : prefix[i] = IF Len(forwarding_tokens) = start
                                           THEN forwarding_tokens[i]
                                           ELSE prefilling_tokens[i]
  <2>1. start \in 0..Len(prefilling_tokens)
    BY <1>1, <1>2
  <2> HIDE DEF start
  <2> QED BY <2>1, PrefixElements, StateTypes DEF PartInv
<1>6. /\ chunk \in Seq(Token) /\ Len(chunk) = n - start
      /\ \A i \in 1..(n - start) : chunk[i] = prefilling_tokens[start + i]
  <2>1. start \in 0..Len(prefilling_tokens) /\ n \in start..Len(prefilling_tokens)
    BY <1>1, <1>2
  <2> HIDE DEF n, start
  <2> QED BY <2>1, SuffixElements, StateTypes DEF PartInv
<1>7. drafts \in Seq(Token) /\ Len(drafts) \in Nat
  <2>1. drafts \in Seq(Token)
    BY StateTypes, EmptySeq DEF PartInv
  <2> QED BY <2>1, LenProperties
<1>8. /\ done.prefill_token_num = w.prefill_token_num
      /\ done.prefill_start_offset = start
      /\ done.draft_token_num = Len(drafts) /\ done \in Workload
  <2>1. CASE last_chunk
    BY <1>1, <2>1, StateNumbers DEF Workload, PartInv
  <2>2. CASE ~last_chunk
    BY <1>1, <2>2, EmptySeq
  <2> QED BY <2>1, <2>2
<1>9. kind = IF end = Len(prefilling_tokens) THEN "prefill" ELSE "prefill_chunk_mid"
  BY <1>3
<1>10. drafts = IF end = Len(prefilling_tokens) THEN draft_tokens ELSE <<>>
  BY <1>3
<1>11. kind \in StepKinds
  BY DEF StepKinds
<1> HIDE DEF prefix, chunk, drafts, done, kind, last_chunk
<1>12. /\ body \in Seq(Token) /\ Len(body) = n
       /\ \A i \in 1..start : body[i] = prefix[i]
       /\ \A i \in 1..(n - start) : body[start + i] = prefilling_tokens[start + i]
  <2>1. /\ body \in Seq(Token) /\ Len(body) = Len(prefix) + Len(chunk)
        /\ \A i \in 1..Len(prefix) : body[i] = prefix[i]
        /\ \A i \in 1..Len(chunk) : body[Len(prefix) + i] = chunk[i]
    BY <1>5, <1>6, ConcatElements
  <2> HIDE DEF body
  <2> QED BY <1>1, <1>2, <1>5, <1>6, <2>1
<1> HIDE DEF body
<1>13. /\ new \in Seq(Token) /\ Len(new) = n + Len(drafts)
       /\ \A i \in 1..n : new[i] = body[i]
  BY <1>7, <1>12, ConcatElements
<1> HIDE DEF new
<1>14. ASSUME NEW i \in 1..n
       PROVE  new[i] = IF i <= start /\ Len(forwarding_tokens) = start
                         THEN forwarding_tokens[i] ELSE prefilling_tokens[i]
  <2>1. CASE i <= start
    <3>1. i \in 1..start
      BY <1>1, <1>2, <2>1
    <3> QED BY <1>5, <1>12, <1>13, <2>1, <3>1
  <2>2. CASE ~(i <= start)
    <3>1. i - start \in 1..(n - start) /\ start + (i - start) = i
      BY <1>1, <1>2, <2>2
    <3> QED BY <1>12, <1>13, <2>2, <3>1
  <2> QED BY <2>1, <2>2
<1>15. t \in InflightTask
  <2>1. Len(prefix) \in Nat /\ FALSE \in BOOLEAN /\ planning_task \in PlannedTask
    BY <1>1, <1>5 DEF PartInv, LayoutInv, TypeInv, TypeOK, WorkTyped
  <2> QED BY <1>8, <1>11, <1>13, <2>1, LaunchedType
<1>16. /\ t.workload = done /\ t.kind = kind /\ t.len = n + Len(drafts)
       /\ t.kv = start /\ ~t.placeholder
       /\ t.planned_len = planning_task.planned_len
       /\ t.sampling_token_num = IF kind = "prefill_chunk_mid" THEN 0
                                 ELSE 1 + Len(drafts)
  BY <1>5, <1>8, <1>13 DEF Launched
<1> HIDE DEF t
<1>17. NewStep = t
  BY <1>4, <1>15, StateTypes, AppendElements DEF NewStep, PartInv
<1>18. t.sampling_token_num = IF end = Len(prefilling_tokens) THEN 1 + Len(drafts)
                              ELSE 0
  BY <1>9, <1>16
<1>19. IsChunk(w)
  BY <1>1 DEF IsChunk
<1> HIDE DEF w, n, end, start
<1> QED BY <1>1, <1>2, <1>4, <1>8, <1>9, <1>10, <1>13, <1>14, <1>15, <1>16, <1>17,
           <1>18, <1>19
        DEF w, start, end

\* A placeholder block, reserved behind what is launched already.
LEMMA ReserveEffect ==
  ASSUME PartInv, HasInflightCapacity, ReserveBuildAheadPlaceholderBlock
  PROVE  LET w == planning_task.workload
             t == NewStep
         IN  /\ FastPath /\ HasInflightTask /\ generated_tokens = <<>>
             /\ inflight_tasks' = Append(inflight_tasks, t) /\ t \in InflightTask
             /\ t.workload.prefill_token_num = 0
             /\ t.workload.generated_token_num = 1
             /\ t.workload.draft_token_num = w.draft_token_num
             /\ t.kind = "decode" /\ t.placeholder
             /\ t.sampling_token_num = 1 + w.draft_token_num
             /\ t.len = fwd + 1 + w.draft_token_num /\ t.kv = fwd
             /\ Len(forwarding_tokens') = fwd + 1 + w.draft_token_num
             /\ \A i \in 1..fwd : forwarding_tokens'[i] = forwarding_tokens[i]
             /\ \A i \in (fwd + 1)..(fwd + 1 + w.draft_token_num) :
                  forwarding_tokens'[i] = kFastPathPlaceholderTokenId
             /\ kv_cached_token_num' = fwd
             /\ pending_placeholders'
                  = Append(pending_placeholders, BlockOf(t, fwd))
<1> DEFINE w == planning_task.workload
           n == w.draft_token_num
           block == PlaceholderBlock(n)
           new == forwarding_tokens \o block
           t == Launched(DecodeWork(1, n), "decode", new, fwd, TRUE)
<1>1. n \in Nat /\ fwd \in Nat /\ forwarding_tokens \in Seq(Token)
  BY StateTypes, WorkloadFields, StateNumbers DEF PartInv, fwd
<1>2. /\ FastPath /\ HasInflightTask /\ generated_tokens = <<>>
      /\ forwarding_tokens' = new /\ kv_cached_token_num' = fwd
      /\ pending_placeholders'
           = Append(pending_placeholders, [pos |-> fwd, draft |-> n])
      /\ inflight_tasks' = Append(inflight_tasks, t)
  BY DEF ReserveBuildAheadPlaceholderBlock, fwd
<1> HIDE DEF n
<1>3. /\ block \in Seq(Token) /\ Len(block) = 1 + n
      /\ \A i \in 1..(1 + n) : block[i] = kFastPathPlaceholderTokenId
  BY <1>1, PlaceholderBlockType DEF PlaceholderBlock
<1> HIDE DEF block
<1>4. /\ new \in Seq(Token) /\ Len(new) = fwd + (1 + n)
      /\ \A i \in 1..fwd : new[i] = forwarding_tokens[i]
      /\ \A i \in 1..(1 + n) : new[fwd + i] = kFastPathPlaceholderTokenId
  <2>1. /\ new \in Seq(Token) /\ Len(new) = fwd + Len(block)
        /\ \A i \in 1..fwd : new[i] = forwarding_tokens[i]
        /\ \A i \in 1..Len(block) : new[fwd + i] = block[i]
    BY <1>1, <1>3, ConcatElements DEF fwd
  <2> HIDE DEF new
  <2> QED BY <1>3, <2>1
<1> HIDE DEF new
<1>5. ASSUME NEW i \in (fwd + 1)..(fwd + 1 + n)
      PROVE  new[i] = kFastPathPlaceholderTokenId
  <2>1. i - fwd \in 1..(1 + n) /\ fwd + (i - fwd) = i
    BY <1>1
  <2> QED BY <1>4, <2>1
<1>6. t \in InflightTask
  <2>1. DecodeWork(1, n) \in Workload /\ "decode" \in StepKinds /\ TRUE \in BOOLEAN
        /\ planning_task \in PlannedTask
    BY <1>1, WorkTypes
       DEF StepKinds, PartInv, LayoutInv, TypeInv, TypeOK, WorkTyped
  <2> QED BY <1>1, <1>4, <2>1, LaunchedType
<1>7. /\ t.workload.prefill_token_num = 0 /\ t.workload.generated_token_num = 1
      /\ t.workload.draft_token_num = n
      /\ t.kind = "decode" /\ t.placeholder
      /\ t.sampling_token_num = 1 + n
      /\ t.len = fwd + (1 + n) /\ t.kv = fwd
  BY <1>4 DEF Launched, DecodeWork
<1> HIDE DEF t
<1>8. NewStep = t
  BY <1>2, <1>6, StateTypes, AppendElements DEF NewStep, PartInv
<1>9. fwd + (1 + n) = fwd + 1 + n
  BY <1>1
<1>10. BlockOf(t, fwd) = [pos |-> fwd, draft |-> n]
  BY <1>7 DEF BlockOf
<1> HIDE DEF w
<1> QED BY <1>2, <1>4, <1>5, <1>6, <1>7, <1>8, <1>9, <1>10 DEF n, w

\* The tokens that the last retirement left: its bonus token and the drafts.
LEMMA AppendEffect ==
  ASSUME PartInv, HasInflightCapacity, AppendDecodeTokensWithoutPlaceholder
  PROVE  LET w == planning_task.workload
             gen == Len(generated_tokens)
             n == Len(draft_tokens')
             t == NewStep
         IN  /\ ~(FastPath /\ HasInflightTask /\ generated_tokens = <<>>)
             /\ n \in Nat
             /\ n = Min2(w.generated_token_num + w.draft_token_num - gen,
                         Len(draft_tokens))
             /\ inflight_tasks' = Append(inflight_tasks, t) /\ t \in InflightTask
             /\ t.workload.prefill_token_num = 0
             /\ t.workload.generated_token_num = gen
             /\ t.workload.draft_token_num = n
             /\ t.kind = "decode" /\ ~t.placeholder
             /\ t.sampling_token_num = 1 + n
             /\ t.planned_len = planning_task.planned_len
             /\ t.len = fwd + gen + n /\ t.kv = fwd
             /\ Len(forwarding_tokens') = fwd + gen + n
             /\ \A i \in 1..fwd : forwarding_tokens'[i] = forwarding_tokens[i]
             /\ \A i \in 1..gen :
                  forwarding_tokens'[fwd + i] = generated_tokens[i]
             /\ \A i \in 1..n :
                  forwarding_tokens'[(fwd + gen) + i] = draft_tokens[i]
             /\ kv_cached_token_num' = fwd
             /\ forwarding_tokens_draft_num' = n
             /\ UNCHANGED pending_placeholders
<1> DEFINE w == planning_task.workload
           gen == Len(generated_tokens)
           m == Min2(w.generated_token_num + w.draft_token_num - gen,
                     Len(draft_tokens))
           drafts == SubSeq(draft_tokens, 1, m)
           body == forwarding_tokens \o generated_tokens
           new == body \o drafts
           t == Launched(DecodeWork(gen, Len(drafts)), "decode", new, fwd, FALSE)
<1>1. /\ w.generated_token_num \in Nat /\ w.draft_token_num \in Nat
      /\ fwd \in Nat /\ gen \in Nat /\ Len(draft_tokens) \in Nat
      /\ forwarding_tokens \in Seq(Token) /\ generated_tokens \in Seq(Token)
      /\ draft_tokens \in Seq(Token)
  BY StateTypes, WorkloadFields, StateNumbers DEF PartInv, fwd
<1>2. /\ ~(FastPath /\ HasInflightTask /\ generated_tokens = <<>>)
      /\ gen <= w.generated_token_num + w.draft_token_num
      /\ forwarding_tokens' = new /\ kv_cached_token_num' = fwd
      /\ forwarding_tokens_draft_num' = Len(drafts)
      /\ draft_tokens' = drafts
      /\ inflight_tasks' = Append(inflight_tasks, t)
      /\ UNCHANGED pending_placeholders
  BY DEF AppendDecodeTokensWithoutPlaceholder, fwd
<1>3. m \in 0..Len(draft_tokens)
  <2> DEFINE ready == w.generated_token_num + w.draft_token_num - gen
  <2>1. ready \in Nat
    <3>1. PICK g, d \in Nat : w.generated_token_num = g /\ w.draft_token_num = d
      BY <1>1
    <3>2. gen <= g + d /\ ready = (g + d) - gen
      BY <1>2, <3>1
    <3> HIDE DEF w, gen, ready
    <3> QED BY <1>1, <3>1, <3>2
  <2> HIDE DEF ready
  <2>2. Min2(ready, Len(draft_tokens)) \in 0..Len(draft_tokens)
    BY <1>1, <2>1 DEF Min2
  <2> QED BY <2>2 DEF ready
<1> HIDE DEF m
<1>4. /\ drafts \in Seq(Token) /\ Len(drafts) = m
      /\ \A i \in 1..m : drafts[i] = draft_tokens[i]
  BY <1>1, <1>3, PrefixElements
<1> HIDE DEF drafts
<1>5. /\ body \in Seq(Token) /\ Len(body) = fwd + gen
      /\ \A i \in 1..fwd : body[i] = forwarding_tokens[i]
      /\ \A i \in 1..gen : body[fwd + i] = generated_tokens[i]
  BY <1>1, ConcatElements DEF fwd
<1> HIDE DEF body, gen
<1>6. /\ new \in Seq(Token) /\ Len(new) = (fwd + gen) + m
      /\ \A i \in 1..(fwd + gen) : new[i] = body[i]
      /\ \A i \in 1..m : new[(fwd + gen) + i] = draft_tokens[i]
  <2>1. /\ new \in Seq(Token) /\ Len(new) = Len(body) + Len(drafts)
        /\ \A i \in 1..Len(body) : new[i] = body[i]
        /\ \A i \in 1..Len(drafts) : new[Len(body) + i] = drafts[i]
    BY <1>4, <1>5, ConcatElements
  <2> HIDE DEF new
  <2> QED BY <1>4, <1>5, <2>1
<1> HIDE DEF new
<1>7. \A i \in 1..fwd : new[i] = forwarding_tokens[i]
  <2>1. \A i \in 1..fwd : i \in 1..(fwd + gen)
    BY <1>1
  <2> QED BY <1>5, <1>6, <2>1
<1>8. \A i \in 1..gen : new[fwd + i] = generated_tokens[i]
  <2>1. \A i \in 1..gen : fwd + i \in 1..(fwd + gen)
    BY <1>1
  <2> QED BY <1>5, <1>6, <2>1
<1>9. m \in Nat
  BY <1>1, <1>3
<1>10. t \in InflightTask
  <2>1. DecodeWork(gen, Len(drafts)) \in Workload /\ "decode" \in StepKinds
        /\ FALSE \in BOOLEAN /\ planning_task \in PlannedTask
    BY <1>1, <1>4, <1>9, WorkTypes
       DEF StepKinds, PartInv, LayoutInv, TypeInv, TypeOK, WorkTyped
  <2> QED BY <1>1, <1>6, <2>1, LaunchedType
<1>11. /\ t.workload.prefill_token_num = 0 /\ t.workload.generated_token_num = gen
       /\ t.workload.draft_token_num = m
       /\ t.kind = "decode" /\ ~t.placeholder
       /\ t.sampling_token_num = 1 + m
       /\ t.planned_len = planning_task.planned_len
       /\ t.len = fwd + gen + m /\ t.kv = fwd
  BY <1>4, <1>6 DEF Launched, DecodeWork
<1> HIDE DEF t
<1>12. NewStep = t
  BY <1>2, <1>10, StateTypes, AppendElements DEF NewStep, PartInv
<1>13. Len(draft_tokens') = m
  BY <1>2, <1>4
<1> HIDE DEF w
<1> QED BY <1>2, <1>4, <1>6, <1>7, <1>8, <1>9, <1>10, <1>11, <1>12, <1>13
        DEF m, gen, w

-----------------------------------------------------------------------------
(***************************************************************************)
(* The chunks of the prompt.                                               *)
(***************************************************************************)

\* The prompt is launched, or its next chunk is known.
LEMMA PlanSplits ==
  ASSUME LayoutInv, NEW w \in Workload, SetPlanningTask(w)
  PROVE  /\ planning_task'.workload = w /\ ~HasPlanningTask
         /\ ~IsChunk(planning_task.workload)
         /\ planning_task'.planned_len = GetPlanningSequenceLen(w)
         /\ remaining_workload'.prefill_start_offset
              = remaining_workload.prefill_start_offset + w.prefill_token_num
         /\ remaining_workload'.prefill_token_num
              = remaining_workload.prefill_token_num - w.prefill_token_num
         /\ planning_workload' = NoWork
<1>1. /\ planning_task' = [workload |-> w, planned_len |-> GetPlanningSequenceLen(w)]
      /\ remaining_workload' = RestOfPrompt(w) /\ planning_workload' = NoWork
      /\ ~HasPlanningTask
  BY DEF SetPlanningTask, CanPlan
<1>2. ~IsChunk(planning_task.workload)
  <2>1. planning_task.workload \in Workload
    BY StateTypes
  <2> QED BY <1>1, <2>1 DEF HasPlanningTask, IsEmpty, GetTokenNum, IsChunk, Workload
<1> QED BY <1>1, <1>2 DEF RestOfPrompt, PrefillWork

\* A hit moves the start of a prompt that is not cut yet.
LEMMA TilePrefixCacheHit ==
  ASSUME PartInv, NEW n \in 1..Len(prefilling_tokens), PrefixCacheHit(n)
  PROVE  ChunksTile'
<1>1. /\ ~HasInflightTask /\ ~HasPlanningTask
      /\ UNCHANGED <<inflight_tasks, planning_task>>
  BY DEF PrefixCacheHit, CanPlan, pipeline
<1>2. ~IsChunk(planning_task.workload)
  <2>1. planning_task.workload \in Workload
    BY StateTypes DEF PartInv
  <2> QED BY <1>1, <2>1 DEF HasPlanningTask, IsEmpty, GetTokenNum, IsChunk, Workload
<1>3. inflight_tasks = <<>> /\ Len(inflight_tasks) = 0
  BY <1>1, EmptySeq DEF HasInflightTask
<1> QED BY <1>1, <1>2, <1>3 DEF ChunksTile, HasInflightTask

\* What the chunks are about does not change.
LEMMA TileKept ==
  ASSUME PartInv,
         UNCHANGED <<inflight_tasks, planning_task,
                     remaining_workload.prefill_token_num,
                     remaining_workload.prefill_start_offset>>
  PROVE  ChunksTile'
BY DEF PartInv, ChunksTile, HasInflightTask, PromptLaunched, NextStart

\* An estimated result moves neither a chunk nor the cut of the prompt.
LEMMA TileEstimation ==
  ASSUME PartInv, NEW n \in 0..MtpStepNum, SetInflightTaskGenResultEstimation(n)
  PROVE  ChunksTile'
<1>1. UNCHANGED <<inflight_tasks, planning_task>>
  BY DEF SetInflightTaskGenResultEstimation, pipeline
<1>2. UNCHANGED <<remaining_workload.prefill_token_num,
                  remaining_workload.prefill_start_offset>>
  BY StateTypes DEF SetInflightTaskGenResultEstimation, Workload, PartInv
<1> QED BY <1>1, <1>2, TileKept

\* A chunk is planned where the prompt is cut, and the rest starts behind it.
LEMMA TilePlan ==
  ASSUME PartInv,
         \/ \E n \in 1..Len(prefilling_tokens) : PlanPrefill(n)
         \/ PlanDecode
  PROVE  ChunksTile'
<1>1. ASSUME NEW n \in 1..Len(prefilling_tokens), PlanPrefill(n)
      PROVE  ChunksTile'
  <2> DEFINE start == remaining_workload.prefill_start_offset
             w == PrefillWork(n, start)
  <2>1. start \in Nat /\ n \in Nat /\ n > 0 /\ w \in Workload
        /\ remaining_workload.prefill_token_num \in Nat
    <3>1. start \in Nat /\ remaining_workload.prefill_token_num \in Nat
      BY StateTypes, WorkloadFields DEF PartInv
    <3>2. n \in Nat /\ n > 0
      BY StateNumbers DEF PartInv
    <3> QED BY <3>1, <3>2, WorkTypes
  <2>2. /\ w.prefill_token_num = n /\ w.prefill_start_offset = start
        /\ w.draft_token_num = 0 /\ ChunkEnd(w) = start + n
    BY DEF PrefillWork, ChunkEnd
  <2>3. remaining_workload.prefill_token_num > 0 /\ SetPlanningTask(w)
    BY <1>1 DEF PlanPrefill
  <2> HIDE DEF w
  <2>4. /\ planning_task'.workload = w /\ ~IsChunk(planning_task.workload)
        /\ remaining_workload'.prefill_start_offset = start + n
    BY <2>1, <2>2, <2>3, PlanSplits DEF PartInv
  <2>5. UNCHANGED inflight_tasks
    BY <2>3 DEF SetPlanningTask, pipeline
  <2>6. NextStart = start /\ NextStart' = start /\ ~PromptLaunched
    BY <2>1, <2>2, <2>3, <2>4 DEF NextStart, IsChunk, PromptLaunched
  <2>7. IsChunk(planning_task'.workload)
    BY <2>1, <2>2, <2>4 DEF IsChunk
  <2> QED BY <2>2, <2>4, <2>5, <2>6, <2>7 DEF PartInv, ChunksTile, HasInflightTask
<1>2. ASSUME PlanDecode PROVE ChunksTile'
  <2>1. /\ planning_workload \in Workload /\ SetPlanningTask(planning_workload)
        /\ remaining_workload.prefill_token_num = 0
    BY <1>2, StateTypes DEF PlanDecode, PartInv
  <2>2. planning_workload.prefill_token_num = 0
    BY <2>1 DEF SetPlanningTask, Workload
  <2>3. /\ planning_task'.workload = planning_workload
        /\ remaining_workload'.prefill_token_num = 0 - 0
    BY <2>1, <2>2, PlanSplits DEF PartInv
  <2>4. UNCHANGED inflight_tasks
    BY <2>1 DEF SetPlanningTask, pipeline
  <2>5. PromptLaunched' /\ ~IsChunk(planning_task'.workload)
    BY <2>2, <2>3 DEF PromptLaunched, IsChunk
  <2> QED BY <2>4, <2>5 DEF PartInv, ChunksTile, HasInflightTask
<1> QED BY <1>1, <1>2

\* Nothing of the prompt is planned once a launch took the planned chunk.
LEMMA AfterLaunch ==
  ASSUME LaunchPlanningTask
  PROVE  /\ ~HasPlanningTask' /\ ~IsChunk(planning_task.workload)'
         /\ UNCHANGED <<remaining_workload, prefilling_tokens>>
<1>1. planning_task' = NoTask /\ UNCHANGED <<remaining_workload, prefilling_tokens>>
  BY DEF LaunchPlanningTask
<1> QED BY <1>1 DEF HasPlanningTask, IsEmpty, GetTokenNum, NoTask, NoWork,
                    DecodeWork, IsChunk

\* A launch adds one step behind the others.
LEMMA TileAppend ==
  ASSUME PartInv, LaunchPlanningTask, NEW t \in InflightTask,
         inflight_tasks' = Append(inflight_tasks, t),
         IsChunk(t.workload) =>
           /\ t.len = ChunkEnd(t.workload) + t.workload.draft_token_num
           /\ t.kv = t.workload.prefill_start_offset
           /\ t.workload.prefill_start_offset = NextStart
           /\ ~PromptLaunched,
         remaining_workload.prefill_token_num > 0
           => remaining_workload.prefill_start_offset = ChunkEnd(t.workload)
  PROVE  ChunksTile'
<1> DEFINE k == Len(inflight_tasks)
<1>1. /\ ~IsChunk(planning_task.workload)' /\ UNCHANGED remaining_workload
      /\ remaining_workload.prefill_token_num \in Nat
  BY AfterLaunch, StateTypes, WorkloadFields DEF PartInv
<1>2. /\ k \in Nat /\ Len(inflight_tasks') = k + 1
      /\ \A i \in 1..k : inflight_tasks'[i] = inflight_tasks[i]
      /\ inflight_tasks'[k + 1] = t
      /\ k > 0 <=> HasInflightTask
  <2>1. k > 0 <=> inflight_tasks # <<>>
    <3>1. inflight_tasks \in Seq(InflightTask)
      BY StateTypes DEF PartInv
    <3> QED BY <3>1, EmptySeq
  <2> QED BY <2>1, StateTypes, StateNumbers, AppendElements
          DEF PartInv, HasInflightTask
<1>3. Last(inflight_tasks)' = t
  BY <1>2 DEF Last
<1>4. ~PromptLaunched' => NextStart' = ChunkEnd(t.workload)
  BY <1>1 DEF PromptLaunched, NextStart
<1>5. ASSUME NEW i \in 1..(k + 1), IsChunk(inflight_tasks'[i].workload)
      PROVE  LET u == inflight_tasks'[i]
             IN  /\ u.len = ChunkEnd(u.workload) + u.workload.draft_token_num
                 /\ u.kv = u.workload.prefill_start_offset
                 /\ i > 1 => u.workload.prefill_start_offset
                               = ChunkEnd(inflight_tasks'[i - 1].workload)
  <2>1. CASE i \in 1..k
    <3>1. i > 1 => i - 1 \in 1..k
      BY <1>2, <2>1
    <3> QED BY <1>2, <1>5, <2>1, <3>1 DEF PartInv, ChunksTile
  <2>2. CASE i = k + 1
    <3>1. i > 1 => /\ HasInflightTask /\ i - 1 = k /\ k \in 1..k
                   /\ Last(inflight_tasks) = inflight_tasks[k]
      BY <1>2, <2>2 DEF Last
    <3>2. i > 1 => NextStart = ChunkEnd(inflight_tasks'[i - 1].workload)
      BY <1>2, <1>5, <2>2, <3>1 DEF PartInv, ChunksTile
    <3> QED BY <1>2, <1>5, <2>2, <3>2
  <2> QED BY <1>2, <2>1, <2>2
<1> QED BY <1>1, <1>2, <1>3, <1>4, <1>5 DEF ChunksTile

\* A launched chunk follows the one in front of it in the queue.
LEMMA TileLaunch ==
  ASSUME PartInv, LaunchPlanningTask
  PROVE  ChunksTile'
<1>1. CASE LaunchPrefill
  <2> DEFINE w == planning_task.workload
             t == NewStep
  <2>1. /\ HasInflightCapacity
    BY DEF LaunchPlanningTask
  <2>2. /\ IsChunk(w) /\ t \in InflightTask
        /\ inflight_tasks' = Append(inflight_tasks, t)
        /\ t.workload.prefill_token_num = w.prefill_token_num
        /\ t.workload.prefill_start_offset = w.prefill_start_offset
        /\ t.len = ChunkEnd(w) + t.workload.draft_token_num
        /\ t.kv = w.prefill_start_offset
    BY <1>1, <2>1, LaunchPrefillEffect
  <2>3. ChunkEnd(t.workload) = ChunkEnd(w)
    BY <2>2 DEF ChunkEnd
  <2>4. NextStart = w.prefill_start_offset /\ ~PromptLaunched
    BY <2>2 DEF NextStart, PromptLaunched
  <2>5. remaining_workload.prefill_start_offset = ChunkEnd(w)
    BY <2>2 DEF PartInv, ChunksTile
  <2> HIDE DEF t, w
  <2> QED BY <2>2, <2>3, <2>4, <2>5, TileAppend
<1>2. ASSUME planning_task.workload.prefill_token_num = 0,
             ReserveBuildAheadPlaceholderBlock \/ AppendDecodeTokensWithoutPlaceholder
      PROVE  ChunksTile'
  <2> DEFINE t == NewStep
  <2>1. HasInflightCapacity /\ HasPlanningTask
    BY DEF LaunchPlanningTask
  <2>2. /\ inflight_tasks' = Append(inflight_tasks, t) /\ t \in InflightTask
        /\ t.workload.prefill_token_num = 0
    BY <1>2, <2>1, ReserveEffect, AppendEffect
  <2>3. ~IsChunk(t.workload) /\ ~(remaining_workload.prefill_token_num > 0)
    BY <1>2, <2>1, <2>2 DEF IsChunk, PartInv, LayoutInv, DecodePhase
  <2> HIDE DEF t
  <2> QED BY <2>2, <2>3, TileAppend
<1> QED BY <1>1, <1>2 DEF LaunchPlanningTask

\* A step that retires is the oldest one; the prompt is not touched.
LEMMA RetireQueue ==
  ASSUME PartInv, NEW good \in 0..MtpStepNum, FinishStep(good)
  PROVE  /\ HasInflightTask /\ inflight_tasks' = Tail(inflight_tasks)
         /\ UNCHANGED <<prefilling_tokens, planning_task, eos, recomputes,
                        remaining_workload.prefill_token_num,
                        remaining_workload.prefill_start_offset>>
         /\ is_stopped' = (is_stopped \/ is_eos_generated')
         /\ is_eos_generated => is_eos_generated'
<1> DEFINE t == Head(inflight_tasks)
<1>1. t \in InflightTask
  BY StateTypes, HeadTailProperties DEF PartInv, FinishStep, HasInflightTask
<1>2. \E gen, acc, dr \in Seq(Token) : Retire(gen, acc, dr)
  <2>1. CASE Samples(t) /\ ~is_eos_generated
    <3>1. Retire(Bonus(t), Accepted(t), Drafts(SampledLen(t), good))
      BY <2>1 DEF FinishStep
    <3>2. good \in Nat
      BY StateNumbers DEF PartInv
    <3>3. Bonus(t) \in Seq(Token) /\ Accepted(t) \in Seq(Token)
          /\ Drafts(SampledLen(t), good) \in Seq(Token)
      BY <1>1, <3>2, SampleTypes DEF PartInv, LayoutInv
    <3> QED BY <3>1, <3>3
  <2>2. CASE ~(Samples(t) /\ ~is_eos_generated)
    <3>1. Retire(<<>>, <<>>, <<>>)
      BY <2>2 DEF FinishStep
    <3> QED BY <3>1, EmptySeq
  <2> QED BY <2>1, <2>2
<1>3. PICK gen, acc, dr \in Seq(Token) : Retire(gen, acc, dr)
  BY <1>2
<1>4. RetireKeeps
  BY <1>3, RetireAfterEosKeeps, RetireSplitKeeps, BackfillKeeps, OwnBlockKeeps,
     WithoutPlaceholderKeeps DEF Retire, PartInv
<1> QED BY <1>3, <1>4 DEF Retire, RetireKeeps, FinishStep

\* The oldest chunk leaves; those behind it still follow each other.
LEMMA TileFinish ==
  ASSUME PartInv, NEW good \in 0..MtpStepNum, FinishStep(good)
  PROVE  ChunksTile'
<1> DEFINE k == Len(inflight_tasks)
<1>1. /\ HasInflightTask /\ inflight_tasks' = Tail(inflight_tasks)
      /\ UNCHANGED <<planning_task, remaining_workload.prefill_token_num,
                     remaining_workload.prefill_start_offset>>
  BY RetireQueue
<1>2. /\ k \in Nat /\ k >= 1 /\ Len(inflight_tasks') = k - 1
      /\ \A i \in 1..(k - 1) : inflight_tasks'[i] = inflight_tasks[i + 1]
  BY <1>1, StateTypes, TailElements DEF HasInflightTask, PartInv
<1>3. HasInflightTask' => k > 1 /\ Last(inflight_tasks)' = Last(inflight_tasks)
  <2>1. HasInflightTask' => Len(inflight_tasks') # 0
    BY <1>1, StateTypes, TailElements, EmptySeq DEF HasInflightTask, PartInv
  <2>2. k > 1 => k - 1 \in 1..(k - 1) /\ (k - 1) + 1 = k
    BY <1>2
  <2> QED BY <1>2, <2>1, <2>2 DEF Last
<1>4. NextStart' = NextStart /\ PromptLaunched' = PromptLaunched
  BY <1>1 DEF NextStart, PromptLaunched
<1>5. ASSUME NEW i \in 1..(k - 1)
      PROVE  /\ i + 1 \in 1..k /\ i + 1 > 1 /\ (i + 1) - 1 = i
             /\ inflight_tasks'[i] = inflight_tasks[i + 1]
             /\ i > 1 => /\ i - 1 \in 1..(k - 1) /\ (i - 1) + 1 = i
                         /\ inflight_tasks'[i - 1] = inflight_tasks[i]
  BY <1>2
<1>6. ASSUME NEW i \in 1..(k - 1), IsChunk(inflight_tasks'[i].workload)
      PROVE  LET u == inflight_tasks'[i]
             IN  /\ u.len = ChunkEnd(u.workload) + u.workload.draft_token_num
                 /\ u.kv = u.workload.prefill_start_offset
                 /\ i > 1 => u.workload.prefill_start_offset
                               = ChunkEnd(inflight_tasks'[i - 1].workload)
  BY <1>5, <1>6 DEF PartInv, ChunksTile
<1> QED BY <1>1, <1>2, <1>3, <1>4, <1>6 DEF PartInv, ChunksTile

\* Stop, Recompute and Recover: the queue is empty and the prompt uncut.
LEMMA TileBlockPressure ==
  ASSUME PartInv, Stop \/ Recompute \/ Recover
  PROVE  ChunksTile'
<1>1. CASE Stop
  BY <1>1, TileKept DEF Stop, pipeline
<1>2. CASE Recompute \/ Recover
  <2>1. planning_task' = NoTask
    BY <1>2 DEF Recompute, ResetPrefillingTokens, Recover
  <2>2. ~IsChunk(planning_task'.workload)
    BY <2>1 DEF NoTask, NoWork, DecodeWork, IsChunk
  <2>3. inflight_tasks' = <<>>
    BY <1>2 DEF Recompute, ResetPrefillingTokens, Recover, pipeline, HasInflightTask
  <2>4. Len(inflight_tasks') = 0
    BY <2>3, EmptySeq
  <2> QED BY <2>2, <2>3, <2>4 DEF ChunksTile, HasInflightTask
<1> QED BY <1>1, <1>2

\* A new request.
LEMMA PartInit == Init => PartInv
<1> SUFFICES ASSUME Init PROVE PartInv
  OBVIOUS
<1>1. LayoutInv
  BY LayoutInit
<1>2. inflight_tasks = <<>> /\ planning_task = NoTask
  BY DEF Init
<1>3. Len(inflight_tasks) = 0 /\ ~IsChunk(planning_task.workload)
  BY <1>2, EmptySeq DEF NoTask, NoWork, DecodeWork, IsChunk
<1> QED BY <1>1, <1>2, <1>3 DEF PartInv, ChunksTile, HasInflightTask

\* One step per action.
LEMMA PartNext == PartInv /\ [Next]_vars => PartInv'
<1> SUFFICES ASSUME PartInv, [Next]_vars PROVE PartInv'
  OBVIOUS
<1>1. LayoutInv'
  BY LayoutNext DEF PartInv
<1>2. ASSUME NEW n \in 1..Len(prefilling_tokens), PrefixCacheHit(n)
      PROVE  ChunksTile'
  BY <1>2, TilePrefixCacheHit
<1>3. ASSUME NEW n \in 0..MtpStepNum, SetInflightTaskGenResultEstimation(n)
      PROVE  ChunksTile'
  BY <1>3, TileEstimation
<1>4. ASSUME NEW n \in 1..Len(prefilling_tokens), PlanPrefill(n)
      PROVE  ChunksTile'
  BY <1>4, TilePlan
<1>5. ASSUME PlanDecode PROVE ChunksTile'
  BY <1>5, TilePlan
<1>6. ASSUME LaunchPlanningTask PROVE ChunksTile'
  BY <1>6, TileLaunch
<1>7. ASSUME NEW good \in 0..MtpStepNum, FinishStep(good)
      PROVE  ChunksTile'
  BY <1>7, TileFinish
<1>8. ASSUME Stop \/ Recompute \/ Recover PROVE ChunksTile'
  BY <1>8, TileBlockPressure
<1>9. ASSUME Idle \/ UNCHANGED vars PROVE ChunksTile'
  BY <1>9, TileKept DEF Idle, vars, request, pipeline
<1>10. ChunksTile'
  BY <1>2, <1>3, <1>4, <1>5, <1>6, <1>7, <1>8, <1>9 DEF Next
<1> QED BY <1>1, <1>10 DEF PartInv

\* The chunks of a prompt follow each other without a gap or an overlap, those
\* in flight, the planned one and what is left to plan, up to the end of the
\* prompt, and each ends the sequence its step forwards: the KLLM_CHECK at the
\* end of SetPlanningTask, after every mix of prefix cache hits, recomputations
\* and chunks in flight, on both paths.
THEOREM PromptPartitionCorrect == Spec => []PromptPartition
<1>1. PartInv => PromptPartition
  <2> SUFFICES ASSUME PartInv PROVE PromptPartition
    OBVIOUS
  <2>1. ChunkEnd(remaining_workload) = Len(prefilling_tokens)
    BY StateTypes DEF PartInv
  <2>2. DOMAIN inflight_tasks = 1..Len(inflight_tasks)
    BY StateTypes, LenProperties DEF PartInv
  <2>3. IsChunk(planning_task.workload)
          => NextStart = planning_task.workload.prefill_start_offset
             /\ ~PromptLaunched
    BY DEF NextStart, PromptLaunched
  <2> QED BY <2>1, <2>2, <2>3 DEF PartInv, ChunksTile, PromptPartition, IsChunk
<1>2. Spec => []PartInv
  BY PartInit, PartNext, PTL DEF Spec
<1> QED BY <1>1, <1>2, PTL

-----------------------------------------------------------------------------
(***************************************************************************)
(* What the executor answers.                                              *)
(***************************************************************************)

\* What the executor proposes: some right tokens, then wrong ones.
LEMMA DraftElements ==
  ASSUME NEW n \in Nat, NEW good \in Nat
  PROVE  /\ Drafts(n, good) \in Seq(Token) /\ Len(Drafts(n, good)) = MtpStepNum
         /\ \A i \in 1..MtpStepNum :
              Drafts(n, good)[i] = IF i <= good THEN n + i ELSE Wrong
<1> DEFINE d == Drafts(n, good)
<1>1. d = [i \in 1..MtpStepNum |-> d[i]]
      /\ \A i \in 1..MtpStepNum : d[i] = IF i <= good THEN n + i ELSE Wrong
  BY DEF Drafts
<1>2. \A i \in 1..MtpStepNum : d[i] \in Token
  BY InferRequestAssumption DEF Drafts, Token, Wrong
<1> HIDE DEF d
<1>3. MtpStepNum \in Int /\ MtpStepNum >= 0
  BY InferRequestAssumption
<1>4. d \in Seq(Token) /\ Len(d) = MtpStepNum
  BY <1>1, <1>2, <1>3, FunctionIsSeq
<1> QED BY <1>1, <1>4 DEF d

\* A step samples at least one token and not beyond the stop token: its
\* accepted drafts continue the text, and its bonus token follows them unless
\* one of them is the stop token.
LEMMA SampleEffect ==
  ASSUME LayoutInv, OutputInv, ~is_eos_generated, NEW t \in InflightTask
  PROVE  LET v == Verified(t)
             len == SampledLen(t)
             acc == Accepted(t)
             gen == Bonus(t)
         IN  /\ v \in Nat /\ v <= exec_good /\ v <= t.workload.draft_token_num
             /\ v <= MtpStepNum
             /\ len \in Nat /\ out < len /\ len <= out + v + 1 /\ len <= eos
             /\ acc \in Seq(Token) /\ gen \in Seq(Token)
             /\ \A i \in 1..Len(acc) : acc[i] = out + i
             /\ \/ gen = <<len>> /\ len = out + v + 1 /\ Len(acc) = v
                \/ gen = <<>> /\ len = eos /\ Len(acc) = len - out /\ len <= out + v
<1> DEFINE v == Verified(t)
           len == SampledLen(t)
           acc == Accepted(t)
           gen == Bonus(t)
           d == t.workload.draft_token_num
<1>1. /\ out \in Nat /\ exec_len = out /\ exec_good \in Nat /\ eos \in Nat
      /\ exec_good <= MtpStepNum /\ MtpStepNum \in Nat /\ out < eos /\ d \in Nat
  <2>1. out \in Nat /\ eos \in Nat /\ exec_good \in Nat /\ MtpStepNum \in Nat
    BY StateNumbers DEF out
  <2>2. d \in Nat
    BY StepFields
  <2>3. out <= eos /\ out # eos /\ exec_len = out /\ exec_good <= MtpStepNum
    BY DEF OutputInv, OutputIsText, out
  <2> QED BY <2>1, <2>2, <2>3
<1> HIDE DEF d
<1>2. v \in Nat /\ v <= exec_good /\ v <= d
  BY <1>1 DEF Verified, Min2, d
<1> HIDE DEF v
<1>3. len = IF eos <= out + v + 1 THEN eos ELSE out + v + 1
  BY <1>1 DEF SampledLen, v
<1> HIDE DEF len
<1>4. len \in Nat /\ out < len /\ len <= out + v + 1 /\ len <= eos
  BY <1>1, <1>2, <1>3
<1>5. gen = IF len = out + v + 1 THEN <<len>> ELSE <<>>
  BY <1>1 DEF Bonus, len, v
<1>6. gen \in Seq(Token)
  <2>1. len \in Token
    BY <1>4 DEF Token
  <2> QED BY <1>5, <2>1
<1> DEFINE n == Min2(v, len - out)
<1>7. acc = [i \in 1..n |-> out + i]
  BY <1>1 DEF Accepted, len, v
<1>8. n \in Nat /\ n = IF len = out + v + 1 THEN v ELSE len - out
  BY <1>1, <1>2, <1>4 DEF Min2
<1> HIDE DEF n, acc, gen
<1>9. acc \in Seq(Token) /\ Len(acc) = n
  <2>1. \A i \in 1..n : acc[i] \in Token
    BY <1>1, <1>7, <1>8 DEF Token
  <2>2. acc = [i \in 1..n |-> acc[i]] /\ n \in Int /\ n >= 0
    BY <1>7, <1>8
  <2> QED BY <2>1, <2>2, FunctionIsSeq
<1>10. CASE len = out + v + 1
  BY <1>1, <1>2, <1>4, <1>5, <1>6, <1>7, <1>8, <1>9, <1>10
     DEF v, len, acc, gen, d
<1>11. CASE len # out + v + 1
  <2>1. len = eos /\ len <= out + v
    BY <1>1, <1>2, <1>3, <1>4, <1>11
  <2> QED BY <1>1, <1>2, <1>4, <1>5, <1>6, <1>7, <1>8, <1>9, <1>11, <2>1
          DEF v, len, acc, gen, d
<1> QED BY <1>10, <1>11

\* The same, with the lengths that matter to the retirements.
Sample(t) ==
  LET len == SampledLen(t)
      acc == Accepted(t)
      gen == Bonus(t)
      d == t.workload.draft_token_num
  IN  /\ len \in Nat /\ out < len /\ len <= eos
      /\ acc \in Seq(Token) /\ gen \in Seq(Token) /\ Len(acc) \in Nat
      /\ \A i \in 1..Len(acc) : acc[i] = out + i
      /\ Len(acc) <= d /\ Len(acc) <= exec_good
      /\ \/ gen = <<len>> /\ len = out + Len(acc) + 1
         \/ gen = <<>> /\ len = eos /\ len = out + Len(acc)

\* What a step samples is as long as its drafts and a bonus token.
LEMMA SampleLengths ==
  ASSUME LayoutInv, OutputInv, ~is_eos_generated, NEW t \in InflightTask
  PROVE  Sample(t)
<1> DEFINE d == t.workload.draft_token_num
           len == SampledLen(t)
           acc == Accepted(t)
           gen == Bonus(t)
<1>1. out \in Nat /\ exec_good \in Nat /\ d \in Nat
  BY StateNumbers, StepFields DEF out
<1>2. PICK v \in Nat :
        /\ v <= exec_good /\ v <= d
        /\ len \in Nat /\ out < len /\ len <= eos
        /\ acc \in Seq(Token) /\ gen \in Seq(Token)
        /\ \A i \in 1..Len(acc) : acc[i] = out + i
        /\ \/ gen = <<len>> /\ len = out + v + 1 /\ Len(acc) = v
           \/ gen = <<>> /\ len = eos /\ Len(acc) = len - out /\ len <= out + v
  BY SampleEffect
<1>3. Len(acc) \in Nat
  BY <1>2, LenProperties
<1> HIDE DEF len, acc, gen, d
<1>4. CASE gen = <<len>> /\ len = out + v + 1 /\ Len(acc) = v
  BY <1>1, <1>2, <1>3, <1>4 DEF Sample, len, acc, gen, d
<1>5. CASE gen = <<>> /\ len = eos /\ Len(acc) = len - out /\ len <= out + v
  <2>1. len = out + Len(acc) /\ Len(acc) <= exec_good /\ Len(acc) <= d
    BY <1>1, <1>2, <1>3, <1>5
  <2> QED BY <1>2, <1>3, <1>5, <2>1 DEF Sample, len, acc, gen, d
<1> QED BY <1>2, <1>4, <1>5

\* The text with what a step samples behind it.
LEMMA TextGrows ==
  ASSUME LayoutInv, OutputInv, NEW acc \in Seq(Token), NEW gen \in Seq(Token),
         NEW len \in Nat, \A i \in 1..Len(acc) : acc[i] = out + i,
         \/ gen = <<len>> /\ len = out + Len(acc) + 1
         \/ gen = <<>> /\ len = out + Len(acc)
  PROVE  output_tokens \o acc \o gen = Upto(len)
<1> DEFINE s == output_tokens \o acc
           r == s \o gen
<1>1. /\ output_tokens \in Seq(Token) /\ out \in Nat /\ Len(output_tokens) = out
      /\ Len(acc) \in Nat
      /\ \A i \in 1..out : output_tokens[i] = i
  <2>1. output_tokens \in Seq(Token) /\ out \in Nat /\ Len(acc) \in Nat
    BY StateTypes, StateNumbers, LenProperties DEF out
  <2>2. output_tokens = Upto(out)
    BY DEF OutputInv, OutputIsText, out
  <2> QED BY <2>1, <2>2, UptoElements DEF out
<1>2. /\ s \in Seq(Token) /\ Len(s) = out + Len(acc)
      /\ \A i \in 1..out : s[i] = i
      /\ \A i \in 1..Len(acc) : s[out + i] = out + i
  <2>1. /\ s \in Seq(Token) /\ Len(s) = Len(output_tokens) + Len(acc)
        /\ \A i \in 1..Len(output_tokens) : s[i] = output_tokens[i]
        /\ \A i \in 1..Len(acc) : s[Len(output_tokens) + i] = acc[i]
    BY <1>1, ConcatElements
  <2> HIDE DEF s
  <2> QED BY <1>1, <2>1
<1> HIDE DEF s
<1>3. \A i \in 1..Len(s) : s[i] = i
  <2>1. ASSUME NEW i \in 1..Len(s), ~(i \in 1..out) PROVE s[i] = i
    <3>1. i - out \in 1..Len(acc) /\ out + (i - out) = i
      BY <1>1, <1>2, <2>1
    <3> QED BY <1>2, <3>1
  <2> QED BY <1>2, <2>1
<1>4. /\ r \in Seq(Token) /\ Len(r) = Len(s) + Len(gen)
      /\ \A i \in 1..Len(s) : r[i] = s[i]
      /\ \A i \in 1..Len(gen) : r[Len(s) + i] = gen[i]
  BY <1>2, ConcatElements
<1> HIDE DEF r
<1>5. CASE gen = <<>> /\ len = out + Len(acc)
  <2>1. Len(r) = len /\ \A i \in 1..len : r[i] = i
    BY <1>1, <1>2, <1>3, <1>4, <1>5, EmptySeq
  <2> QED BY <1>4, <2>1, IsUpto DEF r, s
<1>6. CASE gen = <<len>> /\ len = out + Len(acc) + 1
  <2>1. Len(gen) = 1 /\ gen[1] = len /\ Len(s) + 1 = len
    BY <1>1, <1>2, <1>6
  <2>2. Len(r) = len
    BY <1>4, <2>1
  <2>3. \A i \in 1..len : r[i] = i
    <3>1. r[len] = len
      BY <1>4, <2>1
    <3>2. \A i \in 1..len : i # len => i \in 1..Len(s)
      BY <1>2, <1>1, <2>1
    <3> QED BY <1>3, <1>4, <3>1, <3>2
  <2> QED BY <1>4, <2>2, <2>3, IsUpto DEF r, s
<1> QED BY <1>5, <1>6

\* The last token of the text is its length.
LEMMA StopToken ==
  ASSUME NEW n \in Nat, n >= 1
  PROVE  IsStopToken(Upto(n)) <=> n = eos
<1>1. Len(Upto(n)) = n /\ Upto(n)[n] = n
  BY UptoElements
<1>2. Upto(n) # <<>>
  BY <1>1, EmptySeq
<1> QED BY <1>1, <1>2 DEF IsStopToken, Last

-----------------------------------------------------------------------------
(***************************************************************************)
(* How a block is filled and cut.                                          *)
(***************************************************************************)

\* What retirement of the oldest block writes.
LEMMA ShiftEffect ==
  ASSUME NEW gen, NEW acc, NEW dr, RetireOwnPlaceholderBlockAndShift(gen, acc, dr),
         NEW b, b = Head(pending_placeholders),
         NEW trimmed, trimmed = b.draft - Len(acc)
  PROVE  LET rest == MovedBlocks(b, trimmed)
             kept == TrimBlock(b, acc)
         IN  /\ infer_stage' = "decode" /\ generated_tokens' = <<>>
             /\ pending_placeholders' = rest
             /\ forwarding_tokens' =
                  IF rest # <<>> /\ gen # <<>>
                  THEN FillBlock(kept, rest[1], gen[1], dr) ELSE kept
             /\ output_tokens' = output_tokens \o acc \o gen
             /\ is_eos_generated' = IsStopToken(output_tokens')
             /\ kv_cached_token_num' = VerifiedLen(b, Len(acc))
             /\ planning_workload' = DecodeWork(Len(gen), Len(dr))
BY DEF RetireOwnPlaceholderBlockAndShift, MovedBlocks, NewDecodeWork

\* Blocks behind a trimmed one move left with it.
MovedLeft(rest, trimmed) ==
  /\ rest \in Seq(Block) /\ Len(rest) = Len(pending_placeholders) - 1
  /\ \A i \in 1..Len(rest) :
       /\ rest[i].pos = pending_placeholders[i + 1].pos - trimmed
       /\ rest[i].draft = pending_placeholders[i + 1].draft

\* The blocks that are moved, one by one.
LEMMA MovedElements ==
  ASSUME pending_placeholders \in Seq(Block), pending_placeholders # <<>>,
         BlocksOrdered, NEW trimmed \in Nat, NEW b,
         b = Head(pending_placeholders), trimmed <= b.draft
  PROVE  MovedLeft(MovedBlocks(b, trimmed), trimmed)
BY MovedBlocksType DEF MovedLeft

\* A queue with an element is not empty.
LEMMA SomeTask ==
  ASSUME Len(inflight_tasks) # 0
  PROVE  HasInflightTask
BY EmptySeq DEF HasInflightTask

\* A queue of one element.
LEMMA OneElement ==
  ASSUME NEW S, NEW q \in Seq(S), Len(q) = 1
  PROVE  q = <<q[1]>> /\ q # <<>>
OBVIOUS

\* f is s with main, and the drafts behind it, written over its positions from
\* pos + 1 on.
IsFilled(f, s, pos, d, main, drafts) ==
  /\ f \in Seq(Token) /\ Len(f) = Len(s)
  /\ \A i \in 1..pos : f[i] = s[i]
  /\ f[pos + 1] = main
  /\ \A i \in 1..d : f[(pos + 1) + i] = drafts[i]

\* What FillBlock writes, token by token.
LEMMA FillElements ==
  ASSUME NEW s \in Seq(Token), NEW pos \in Nat, NEW d \in Nat,
         NEW main \in Token, NEW drafts \in Seq(Token),
         pos + 1 + d <= Len(s), d <= Len(drafts)
  PROVE  IsFilled(FillBlock(s, [pos |-> pos, draft |-> d], main, drafts),
                  s, pos, d, main, drafts)
<1> DEFINE b == [pos |-> pos, draft |-> d]
           f == FillBlock(s, b, main, drafts)
<1>1. b \in Block /\ b.pos = pos /\ b.draft = d
  BY DEF Block
<1>2. f \in Seq(Token) /\ Len(f) = Len(s)
  BY <1>1, FillBlockType
<1>3. DOMAIN s = 1..Len(s) /\ Len(s) \in Nat /\ Len(drafts) \in Nat
  BY LenProperties
<1>4. Min2(d, Len(drafts)) = d
  BY <1>3 DEF Min2
<1> HIDE DEF b
<1>5. \A i \in 1..Len(s) :
        f[i] = IF i = pos + 1 THEN main
               ELSE IF i > pos + 1 /\ i <= pos + 1 + d THEN drafts[i - pos - 1]
               ELSE s[i]
  BY <1>1, <1>3, <1>4 DEF FillBlock
<1> HIDE DEF f
<1>6. \A i \in 1..pos : f[i] = s[i]
  BY <1>3, <1>5
<1>7. f[pos + 1] = main
  BY <1>3, <1>5
<1>8. ASSUME NEW i \in 1..d PROVE f[(pos + 1) + i] = drafts[i]
  <2> DEFINE j == (pos + 1) + i
  <2>1. /\ j \in 1..Len(s) /\ j # pos + 1 /\ j > pos + 1 /\ j <= pos + 1 + d
        /\ j - pos - 1 = i
    BY <1>3
  <2> HIDE DEF j
  <2>2. f[j] = drafts[j - pos - 1]
    BY <1>5, <2>1
  <2> QED BY <2>1, <2>2 DEF j
<1>9. IsFilled(f, s, pos, d, main, drafts)
  BY <1>2, <1>6, <1>7, <1>8 DEF IsFilled
<1> QED BY <1>9 DEF b, f

\* kept is forwarding_tokens with the d tokens behind pos + 1 replaced by acc.
IsTrimmed(kept, pos, d, acc) ==
  /\ kept \in Seq(Token) /\ Len(kept) = fwd - (d - Len(acc))
  /\ \A i \in 1..(pos + 1) : kept[i] = forwarding_tokens[i]
  /\ \A i \in 1..Len(acc) : kept[(pos + 1) + i] = acc[i]

\* What TrimBlock keeps, token by token.
LEMMA TrimElements ==
  ASSUME forwarding_tokens \in Seq(Token), NEW pos \in Nat, NEW d \in Nat,
         NEW acc \in Seq(Token), pos + 1 + d <= fwd, Len(acc) <= d
  PROVE  IsTrimmed(TrimBlock([pos |-> pos, draft |-> d], acc), pos, d, acc)
<1> DEFINE front == SubSeq(forwarding_tokens, 1, pos + 1)
           back == SubSeq(forwarding_tokens, (pos + 1 + d) + 1, fwd)
           most == front \o acc
           kept == TrimBlock([pos |-> pos, draft |-> d], acc)
<1>1. fwd \in Nat /\ Len(acc) \in Nat /\ fwd = Len(forwarding_tokens)
  BY LenProperties DEF fwd
<1>2. kept = most \o back
  BY DEF TrimBlock, BlockEnd, fwd
<1>3. /\ front \in Seq(Token) /\ Len(front) = pos + 1
      /\ \A i \in 1..(pos + 1) : front[i] = forwarding_tokens[i]
  <2>1. pos + 1 \in 0..Len(forwarding_tokens)
    BY <1>1
  <2> QED BY <2>1, PrefixElements
<1>4. back \in Seq(Token) /\ Len(back) = fwd - (pos + 1 + d)
  <2>1. pos + 1 + d \in 0..Len(forwarding_tokens)
        /\ fwd \in (pos + 1 + d)..Len(forwarding_tokens)
    BY <1>1
  <2> QED BY <2>1, SuffixElements
<1> HIDE DEF front, back, kept
<1>5. /\ most \in Seq(Token) /\ Len(most) = Len(front) + Len(acc)
      /\ \A i \in 1..Len(front) : most[i] = front[i]
      /\ \A i \in 1..Len(acc) : most[Len(front) + i] = acc[i]
  BY <1>3, ConcatElements
<1> HIDE DEF most
<1>6. /\ kept \in Seq(Token) /\ Len(kept) = Len(most) + Len(back)
      /\ \A i \in 1..Len(most) : kept[i] = most[i]
  <2>1. most \in Seq(Token) /\ back \in Seq(Token)
    BY <1>4, <1>5
  <2>2. kept = most \o back
    BY <1>2
  <2> QED BY <2>1, <2>2, ConcatElements
<1>7. Len(kept) = fwd - (d - Len(acc))
  BY <1>1, <1>3, <1>4, <1>5, <1>6
<1>8. ASSUME NEW i \in 1..(pos + 1) PROVE kept[i] = forwarding_tokens[i]
  <2>1. i \in 1..Len(front) /\ i \in 1..Len(most)
    BY <1>1, <1>3, <1>5
  <2> QED BY <1>3, <1>5, <1>6, <2>1
<1>9. ASSUME NEW i \in 1..Len(acc) PROVE kept[(pos + 1) + i] = acc[i]
  <2>1. (pos + 1) + i \in 1..Len(most)
    BY <1>1, <1>3, <1>5
  <2> QED BY <1>3, <1>5, <1>6, <2>1
<1>10. IsTrimmed(kept, pos, d, acc)
  BY <1>6, <1>7, <1>8, <1>9 DEF IsTrimmed
<1> QED BY <1>10 DEF kept

-----------------------------------------------------------------------------
(***************************************************************************)
(* A step that sampled retires.                                            *)
(***************************************************************************)

\* What every such retirement does to the text.
Sampled(t, good) ==
  /\ output_tokens' = Upto(SampledLen(t))
  /\ is_eos_generated' = IsStopToken(output_tokens')
  /\ is_stopped' = (is_stopped \/ is_eos_generated')
  /\ exec_len' = SampledLen(t) /\ exec_good' = good /\ UNCHANGED eos

\* After a sample the client has the text up to the bonus token.
LEMMA OutputAfterSample ==
  ASSUME LayoutInv, OutputInv, ~is_eos_generated, NEW t \in InflightTask,
         NEW good \in 0..MtpStepNum, Sampled(t, good)
  PROVE  /\ OutputInv' /\ out' = SampledLen(t)
         /\ is_eos_generated' <=> SampledLen(t) = eos
<1> DEFINE len == SampledLen(t)
<1>1. /\ len \in Nat /\ out < len /\ len <= eos /\ out \in Nat /\ MtpStepNum \in Nat
  BY SampleEffect, StateNumbers DEF out
<1>2. /\ output_tokens' = Upto(len) /\ exec_len' = len /\ exec_good' = good
      /\ is_eos_generated' = IsStopToken(output_tokens')
      /\ is_stopped' = (is_stopped \/ is_eos_generated') /\ eos' = eos
  BY DEF Sampled
<1> HIDE DEF len
<1>3. len >= 1
  BY <1>1
<1>4. Len(output_tokens') = len /\ (is_eos_generated' <=> len = eos)
  BY <1>1, <1>2, <1>3, StopToken, UptoElements
<1>5. output_tokens' = Upto(Len(output_tokens'))
  BY <1>2, <1>4
<1>6. OutputIsText'
  BY <1>1, <1>2, <1>4, <1>5 DEF OutputIsText
<1>7. is_eos_generated' => is_stopped'
  BY <1>2
<1>8. exec_good' <= MtpStepNum
  BY <1>1, <1>2
<1>9. OutputInv'
  BY <1>2, <1>3, <1>4, <1>6, <1>7, <1>8 DEF OutputInv, out
<1> QED BY <1>4, <1>9 DEF out, len

\* The step that sampled is the oldest one.
LEMMA FinishSampling ==
  ASSUME PartInv, ~is_eos_generated, NEW good \in 0..MtpStepNum, FinishStep(good),
         Samples(inflight_tasks[1])
  PROVE  LET t == inflight_tasks[1]
         IN  /\ t \in InflightTask /\ good \in Nat
             /\ Retire(Bonus(t), Accepted(t), Drafts(SampledLen(t), good))
             /\ exec_len' = SampledLen(t) /\ exec_good' = good /\ UNCHANGED eos
             /\ is_stopped' = (is_stopped \/ is_eos_generated')
<1>1. /\ Head(inflight_tasks) = inflight_tasks[1]
      /\ inflight_tasks[1] \in InflightTask
  BY StateTypes, TailElements DEF PartInv, FinishStep, HasInflightTask
<1>2. good \in Nat
  BY StateNumbers DEF PartInv
<1> QED BY <1>1, <1>2 DEF FinishStep

\* A step in the middle of a text: the oldest one is no chunk of the prompt.
LEMMA NotSplit ==
  ASSUME PartInv, HasInflightTask,
         \/ inflight_tasks[1].workload.prefill_token_num = 0
         \/ LastStep(inflight_tasks[1])
  PROVE  ~IsSplitPrefillStep
<1> DEFINE w == inflight_tasks[1].workload
<1>1. /\ Head(inflight_tasks) = inflight_tasks[1]
      /\ w.prefill_token_num \in Nat /\ w.prefill_start_offset \in Nat
      /\ Len(prefilling_tokens) \in Nat
  BY StateTypes, StateNumbers, TailElements, StepFields
     DEF PartInv, HasInflightTask
<1>2. \/ ~(w.prefill_token_num > 0)
      \/ w.prefill_token_num + w.prefill_start_offset = Len(prefilling_tokens)
  BY <1>1 DEF LastStep, ChunkEnd
<1> QED BY <1>1, <1>2 DEF IsSplitPrefillStep

\* The workload planned next: one decode step, unless the text has ended.
LEMMA WorkAfterSample ==
  ASSUME LayoutInv, WorkInv, UNCHANGED planning_task,
         NEW t \in InflightTask, NEW good \in Nat, OutputInv, ~is_eos_generated,
         is_eos_generated' <=> SampledLen(t) = eos,
         \/ planning_workload' = PlanningAfter(Bonus(t), Drafts(SampledLen(t), good))
         \/ planning_workload'
              = DecodeWork(Len(Bonus(t)), Len(Drafts(SampledLen(t), good)))
  PROVE  WorkInv'
<1> DEFINE gen == Bonus(t)
           dr == Drafts(SampledLen(t), good)
<1>1. SampledLen(t) \in Nat /\ (gen = <<SampledLen(t)>> \/ SampledLen(t) = eos)
  BY SampleEffect
<1>2. Len(dr) = MtpStepNum /\ MtpStepNum \in Nat
  BY <1>1, DraftElements, StateNumbers
<1> HIDE DEF gen, dr
<1>3. ~is_eos_generated' => Len(gen) = 1
  BY <1>1
<1>4. \/ IsChunk(planning_workload')
      \/ planning_workload' = DecodeWork(Len(gen), Len(dr))
  BY DEF PlanningAfter, IsChunk, PrefillWork, gen, dr
<1>5. ~is_eos_generated' /\ ~IsChunk(planning_workload')
        => OneDecode(planning_workload')
  BY <1>2, <1>3, <1>4 DEF OneDecode, DecodeWork
<1> QED BY <1>5 DEF WorkInv, OneDecode, HasPlanningTask

\* Two decode steps: the older one's block is cut to what was accepted, and the
\* block behind it, which was empty, takes the bonus token and the new drafts.
LEMMA FinishTwo ==
  ASSUME PartInv, WorkInv, OutputInv, ~is_eos_generated, TwoSteps,
         NEW good \in 0..MtpStepNum, FinishStep(good)
  PROVE  OutputInv' /\ WorkInv' /\ ShapeInv'
<1> DEFINE t == inflight_tasks[1]
           u == inflight_tasks[2]
           d == t.workload.draft_token_num
           e == u.workload.draft_token_num
           len == SampledLen(t)
           acc == Accepted(t)
           gen == Bonus(t)
           dr == Drafts(len, good)
           b == BlockOf(t, out - 1)
           c == BlockOf(u, out + d)
           trimmed == d - Len(acc)
           rest == MovedBlocks(b, trimmed)
           kept == TrimBlock(b, acc)
<1>1. /\ infer_stage = "decode" /\ FastPath /\ PromptLaunched
      /\ Len(inflight_tasks) = 2 /\ DecodeStep(t) /\ DecodeStep(u)
      /\ pending_placeholders = <<b, c>>
      /\ fwd = (out + d) + 1 + e
      /\ IsTextAndDrafts(out + d)
  BY DEF TwoSteps
<1>2. HasInflightTask
  <2>1. Len(inflight_tasks) # 0
    BY <1>1
  <2> QED BY <2>1, SomeTask
<1>3. /\ t \in InflightTask /\ u \in InflightTask
      /\ t.workload.prefill_token_num = 0
      /\ d \in Nat /\ e \in Nat /\ d <= MtpStepNum /\ e <= MtpStepNum
      /\ t.sampling_token_num = 1 + d
  <2>1. t \in InflightTask /\ u \in InflightTask
    <3>1. 1 \in 1..Len(inflight_tasks) /\ 2 \in 1..Len(inflight_tasks)
      BY <1>1
    <3>2. inflight_tasks \in Seq(InflightTask)
      BY StateTypes DEF PartInv
    <3> QED BY <3>1, <3>2, ElementOfSeq
  <2>2. d \in Nat /\ e \in Nat
    BY <2>1, StepFields
  <2> QED BY <1>1, <2>1, <2>2 DEF DecodeStep, OneDecode
<1>4. /\ out \in Nat /\ out >= 1 /\ MtpStepNum \in Nat /\ fwd \in Nat
      /\ exec_good \in Nat /\ forwarding_tokens \in Seq(Token)
      /\ Len(forwarding_tokens) = fwd
  BY StateNumbers, StateTypes DEF PartInv, OutputInv, out, fwd
<1>5. /\ good \in Nat /\ Retire(gen, acc, dr)
      /\ exec_len' = len /\ exec_good' = good /\ UNCHANGED eos
      /\ is_stopped' = (is_stopped \/ is_eos_generated')
  BY <1>3, FinishSampling DEF Samples
<1>6. /\ len \in Nat /\ out < len /\ len <= eos
      /\ acc \in Seq(Token) /\ gen \in Seq(Token)
      /\ \A i \in 1..Len(acc) : acc[i] = out + i
      /\ Len(acc) <= d /\ Len(acc) <= exec_good
      /\ \/ gen = <<len>> /\ len = out + Len(acc) + 1
         \/ gen = <<>> /\ len = eos /\ len = out + Len(acc)
      /\ Len(acc) \in Nat
  <2>1. Sample(t)
    BY <1>3, SampleLengths DEF PartInv
  <2> QED BY <2>1 DEF Sample
<1>7. /\ dr \in Seq(Token) /\ Len(dr) = MtpStepNum
      /\ \A i \in 1..MtpStepNum : dr[i] = IF i <= good THEN len + i ELSE Wrong
  BY <1>5, <1>6, DraftElements
<1>8. /\ forwarding_tokens[out] = out /\ forwarding_tokens[out] # -1
  <2> HIDE DEF d
  <2>1. out \in 1..(out + d) /\ out <= out + exec_good /\ out # -1
    BY <1>3, <1>4
  <2> QED BY <1>1, <2>1 DEF IsTextAndDrafts
<1>9. /\ b = [pos |-> out - 1, draft |-> d] /\ b.pos = out - 1 /\ b.draft = d
      /\ b \in Block /\ (out - 1) + 1 = out /\ out - 1 \in Nat
  BY <1>3, <1>4 DEF BlockOf, Block
<1>10. /\ c = [pos |-> out + d, draft |-> e] /\ c.pos = out + d /\ c.draft = e
       /\ c \in Block /\ BlockEnd(c) = (out + d) + 1 + e
  <2>1. c = [pos |-> out + d, draft |-> e]
    BY DEF BlockOf
  <2>2. out \in Nat /\ d \in Nat /\ e \in Nat
    BY <1>3, <1>4
  <2> HIDE DEF d, e
  <2>3. c \in Block
    BY <2>1, <2>2 DEF Block
  <2> HIDE DEF c
  <2>4. c.pos = out + d /\ c.draft = e
    BY <2>1
  <2>5. BlockEnd(c) = (out + d) + 1 + e
    BY <2>4 DEF BlockEnd
  <2> QED BY <2>1, <2>3, <2>4, <2>5
<1> HIDE DEF b, c, gen, acc, dr, len, d, e
<1>11. RetireOwnPlaceholderBlockAndShift(gen, acc, dr)
  <2>1. ~IsSplitPrefillStep
    BY <1>2, <1>3, NotSplit
  <2>2. pending_placeholders # <<>> /\ Head(pending_placeholders) = b
    BY <1>1
  <2>3. ~BackfillsNext
    BY <1>8, <1>9, <2>2 DEF BackfillsNext, kFastPathPlaceholderTokenId
  <2> QED BY <1>5, <2>1, <2>2, <2>3
          DEF Retire, RetireAfterEos, RetireSplitPrefill,
              TryRetireBackfillNextPlaceholderBlock, RetireWithoutPlaceholder
<1>12. /\ infer_stage' = "decode" /\ generated_tokens' = <<>>
       /\ pending_placeholders' = rest
       /\ forwarding_tokens' =
            IF rest # <<>> /\ gen # <<>> THEN FillBlock(kept, rest[1], gen[1], dr)
            ELSE kept
       /\ output_tokens' = output_tokens \o acc \o gen
       /\ is_eos_generated' = IsStopToken(output_tokens')
       /\ kv_cached_token_num' = VerifiedLen(b, Len(acc))
       /\ planning_workload' = DecodeWork(Len(gen), Len(dr))
  <2>1. Head(pending_placeholders) = b
    BY <1>1
  <2>2. b.draft - Len(acc) = trimmed
    BY <1>9
  <2> HIDE DEF trimmed
  <2> QED BY <1>11, <2>1, <2>2, ShiftEffect
<1>13. /\ HasInflightTask /\ inflight_tasks' = Tail(inflight_tasks)
       /\ UNCHANGED planning_task /\ PromptLaunched'
  BY <1>1, RetireQueue DEF PromptLaunched
<1>14. Len(inflight_tasks') = 1 /\ inflight_tasks'[1] = u
  <2>1. /\ Len(inflight_tasks') = Len(inflight_tasks) - 1
        /\ \A i \in 1..(Len(inflight_tasks) - 1) :
             inflight_tasks'[i] = inflight_tasks[i + 1]
    BY <1>13, StateTypes, TailElements DEF PartInv, HasInflightTask
  <2>2. 1 \in 1..(Len(inflight_tasks) - 1) /\ 1 + 1 = 2 /\ Len(inflight_tasks) - 1 = 1
    BY <1>1
  <2> QED BY <2>1, <2>2
\* The text.
<1>15. output_tokens' = Upto(len)
  BY <1>6, <1>12, TextGrows DEF PartInv
<1>16. Sampled(t, good)
  BY <1>5, <1>12, <1>15 DEF Sampled, len
<1>17. OutputInv' /\ out' = len /\ (is_eos_generated' <=> len = eos)
  BY <1>3, <1>16, OutputAfterSample DEF PartInv, len
<1>18. WorkInv'
  BY <1>3, <1>5, <1>12, <1>13, <1>17, WorkAfterSample
     DEF PartInv, len, gen, dr
\* The blocks.
<1>19. trimmed \in Nat /\ trimmed <= d
  BY <1>3, <1>6
<1>20. /\ rest \in Seq(Block) /\ Len(rest) = 1
       /\ rest[1].pos = (out + d) - trimmed /\ rest[1].draft = e
  <2>1. /\ pending_placeholders \in Seq(Block) /\ pending_placeholders # <<>>
        /\ Head(pending_placeholders) = b /\ Len(pending_placeholders) = 2
        /\ pending_placeholders[2] = c
    BY <1>1, StateTypes DEF PartInv
  <2>2. BlocksOrdered
    BY DEF PartInv, LayoutInv
  <2> HIDE DEF rest, trimmed
  <2>3. MovedLeft(rest, trimmed)
    BY <1>9, <1>19, <2>1, <2>2, MovedElements DEF rest
  <2>4. 1 \in 1..Len(rest) /\ Len(rest) = 1 /\ 1 + 1 = 2
    BY <2>1, <2>3 DEF MovedLeft
  <2> QED BY <1>10, <2>1, <2>3, <2>4 DEF MovedLeft
<1>21. (out + d) - trimmed = out + Len(acc) /\ out + Len(acc) \in Nat
  BY <1>3, <1>4, <1>6
<1>22. rest = <<BlockOf(u, out + Len(acc))>> /\ rest # <<>>
       /\ rest[1] = [pos |-> out + Len(acc), draft |-> e]
  <2>1. rest = <<rest[1]>> /\ rest # <<>> /\ rest[1] \in Block
    BY <1>20, OneElement, ElementOfSeq
  <2> HIDE DEF rest
  <2>2. rest[1] = [pos |-> rest[1].pos, draft |-> rest[1].draft]
    BY <2>1 DEF Block
  <2> QED BY <1>20, <1>21, <2>1, <2>2 DEF BlockOf, e
<1>23. /\ kept \in Seq(Token) /\ Len(kept) = (out + Len(acc)) + 1 + e
       /\ \A i \in 1..out : kept[i] = forwarding_tokens[i]
       /\ \A i \in 1..Len(acc) : kept[out + i] = acc[i]
  <2>1. (out - 1) + 1 + d <= fwd
    BY <1>1, <1>3, <1>4
  <2>2. /\ kept \in Seq(Token) /\ Len(kept) = fwd - (d - Len(acc))
        /\ \A i \in 1..((out - 1) + 1) : kept[i] = forwarding_tokens[i]
        /\ \A i \in 1..Len(acc) : kept[((out - 1) + 1) + i] = acc[i]
    <3> DEFINE pos == out - 1
    <3>1. pos \in Nat /\ pos + 1 + d <= fwd /\ b = [pos |-> pos, draft |-> d]
      BY <1>9, <2>1
    <3> HIDE DEF pos
    <3>2. /\ kept \in Seq(Token) /\ Len(kept) = fwd - (d - Len(acc))
          /\ \A i \in 1..(pos + 1) : kept[i] = forwarding_tokens[i]
          /\ \A i \in 1..Len(acc) : kept[(pos + 1) + i] = acc[i]
      <4>1. d \in Nat /\ Len(acc) <= d /\ forwarding_tokens \in Seq(Token)
            /\ acc \in Seq(Token)
        BY <1>3, <1>4, <1>6
      <4>2. kept = TrimBlock([pos |-> pos, draft |-> d], acc)
        BY <3>1
      <4> HIDE DEF kept
      <4>3. IsTrimmed(kept, pos, d, acc)
        BY <3>1, <4>1, <4>2, TrimElements
      <4> QED BY <4>3 DEF IsTrimmed
    <3> QED BY <3>2 DEF pos
  <2> HIDE DEF kept
  <2>3. fwd - (d - Len(acc)) = (out + Len(acc)) + 1 + e
    BY <1>1, <1>3, <1>4, <1>6
  <2> QED BY <1>9, <2>2, <2>3
<1> HIDE DEF kept, rest, trimmed
<1>24. /\ forwarding_tokens' \in Seq(Token)
       /\ fwd' = (out + Len(acc)) + 1 + e
       /\ gen # <<>> =>
            /\ \A i \in 1..(out + Len(acc)) : forwarding_tokens'[i] = kept[i]
            /\ forwarding_tokens'[(out + Len(acc)) + 1] = gen[1]
            /\ \A i \in 1..e : forwarding_tokens'[((out + Len(acc)) + 1) + i] = dr[i]
  <2>1. CASE gen = <<>>
    BY <1>12, <1>23, <2>1 DEF fwd
  <2>2. CASE gen # <<>>
    <3>1. gen[1] \in Token
      BY <1>6, <2>2, EmptySeq, ElementOfSeq
    <3>2. forwarding_tokens' = FillBlock(kept, rest[1], gen[1], dr)
      BY <1>12, <1>22, <2>2
    <3> DEFINE pos == out + Len(acc)
    <3>3. pos \in Nat /\ pos + 1 + e <= Len(kept) /\ e <= Len(dr)
          /\ rest[1] = [pos |-> pos, draft |-> e]
      BY <1>3, <1>7, <1>21, <1>22, <1>23
    <3> HIDE DEF pos
    <3>4. /\ forwarding_tokens' \in Seq(Token) /\ Len(forwarding_tokens') = Len(kept)
          /\ \A i \in 1..pos : forwarding_tokens'[i] = kept[i]
          /\ forwarding_tokens'[pos + 1] = gen[1]
          /\ \A i \in 1..e : forwarding_tokens'[(pos + 1) + i] = dr[i]
      <4>1. e \in Nat /\ kept \in Seq(Token) /\ dr \in Seq(Token)
        BY <1>3, <1>7, <1>23
      <4>2. forwarding_tokens'
              = FillBlock(kept, [pos |-> pos, draft |-> e], gen[1], dr)
        BY <3>2, <3>3
      <4> DEFINE main == gen[1]
                 next == FillBlock(kept, [pos |-> pos, draft |-> e], main, dr)
      <4> HIDE DEF main
      <4>3. main \in Token
        BY <3>1 DEF main
      <4>4. /\ next \in Seq(Token) /\ Len(next) = Len(kept)
            /\ \A i \in 1..pos : next[i] = kept[i]
            /\ next[pos + 1] = main
            /\ \A i \in 1..e : next[(pos + 1) + i] = dr[i]
        <5>1. IsFilled(next, kept, pos, e, main, dr)
          BY <3>3, <4>1, <4>3, FillElements
        <5> HIDE DEF next
        <5> QED BY <5>1 DEF IsFilled
      <4>5. forwarding_tokens' = next
        BY <4>2 DEF main
      <4> HIDE DEF next
      <4> QED BY <4>4, <4>5 DEF main
    <3> QED BY <1>23, <3>4 DEF pos, fwd
  <2> QED BY <2>1, <2>2
<1>25. CASE len = eos
  <2>1. is_eos_generated'
    BY <1>17, <1>25
  <2>2. fwd' - (1 + e) = out + Len(acc)
    BY <1>3, <1>6, <1>4, <1>24
  <2>3. Ended'
    BY <1>1, <1>12, <1>14, <1>22, <1>24, <2>2 DEF Ended, DecodeStep, BlockOf, e
  <2> QED BY <1>17, <1>18, <2>1, <2>3 DEF ShapeInv
<1>26. CASE len # eos
  <2>1. ~is_eos_generated' /\ gen = <<len>> /\ len = (out + Len(acc)) + 1
        /\ gen # <<>> /\ gen[1] = len
    BY <1>6, <1>17, <1>26
  <2>2. fwd' = len + e /\ len - 1 = out + Len(acc)
    BY <1>3, <1>6, <1>4, <1>24, <2>1
  <2>7. /\ out \in Nat /\ Len(acc) \in Nat /\ d \in Nat /\ e \in Nat
        /\ len \in Nat /\ good \in Nat /\ exec_good \in Nat
        /\ len = (out + Len(acc)) + 1
    BY <1>3, <1>4, <1>5, <1>6, <2>1
  <2>3. ASSUME NEW i \in 1..(len + e)
        PROVE  forwarding_tokens'[i] = IF i <= len + good THEN i ELSE Wrong
    <3>1. CASE i \in 1..out
      <4>1. i \in 1..(out + Len(acc)) /\ i \in 1..(out + d) /\ i <= out + exec_good
            /\ i <= len + good
        BY <2>7, <3>1
      <4>2. forwarding_tokens[i] = i
        BY <1>1, <4>1 DEF IsTextAndDrafts
      <4>3. kept[i] = forwarding_tokens[i]
        BY <1>23, <3>1
      <4>4. forwarding_tokens'[i] = kept[i]
        BY <1>24, <2>1, <4>1
      <4> QED BY <4>1, <4>2, <4>3, <4>4
    <3>2. CASE i \in (out + 1)..(out + Len(acc))
      <4>1. /\ i - out \in 1..Len(acc) /\ out + (i - out) = i
            /\ i \in 1..(out + Len(acc)) /\ i <= len + good
        BY <1>4, <1>5, <1>6, <2>1, <3>2
      <4>2. kept[out + (i - out)] = acc[i - out]
        BY <1>23, <4>1
      <4>3. acc[i - out] = out + (i - out)
        BY <1>6, <4>1
      <4>4. forwarding_tokens'[i] = kept[i]
        BY <1>24, <2>1, <4>1
      <4> QED BY <4>1, <4>2, <4>3, <4>4
    <3>3. CASE i = len
      BY <1>24, <2>1, <3>3, <1>5, <1>6
    <3>4. CASE i \in (len + 1)..(len + e)
      <4>1. /\ i - len \in 1..e /\ i - len \in 1..MtpStepNum
            /\ len + (i - len) = i /\ (i - len <= good <=> i <= len + good)
        BY <1>3, <1>4, <1>5, <1>6, <3>4
      <4>2. forwarding_tokens'[i] = dr[i - len]
        BY <1>24, <2>1, <4>1
      <4> QED BY <1>7, <4>1, <4>2
    <3> QED BY <2>7, <3>1, <3>2, <3>3, <3>4
  <2>4. IsTextAndDrafts(fwd)'
    BY <1>5, <1>17, <2>2, <2>3 DEF IsTextAndDrafts
  <2>5. kv_cached_token_num' = len - 1
    BY <1>6, <1>9, <1>12, <2>1, <2>2, <1>4 DEF VerifiedLen
  <2>6. OneStep'
    BY <1>1, <1>12, <1>13, <1>14, <1>17, <1>22, <2>2, <2>4, <2>5
       DEF OneStep, DecodeStep, BlockOf, e
  <2> QED BY <1>17, <1>18, <2>1, <2>6 DEF ShapeInv
<1> QED BY <1>25, <1>26

\* A sequence that ends with a sampled token and e of the drafts behind it.
EndsWithDrafts(f, len, e, good) ==
  /\ \A i \in 1..(len - 1) : f[i] = i
  /\ f[len] = len
  /\ \A i \in 1..e : f[len + i] = Drafts(len, good)[i]

\* The first n tokens of f are the text up to position m, and wrong behind it.
TextThenWrong(f, n, m) == \A i \in 1..n : f[i] = IF i <= m THEN i ELSE Wrong

\* The tokens of a sequence that ends with proposed drafts.
LEMMA FilledElements ==
  ASSUME NEW f, NEW len \in Nat, len >= 1, NEW e \in Nat, e <= MtpStepNum,
         NEW good \in Nat, EndsWithDrafts(f, len, e, good)
  PROVE  TextThenWrong(f, len + e, len + good)
<1>1. MtpStepNum \in Nat
  BY InferRequestAssumption
<1>2. \A i \in 1..MtpStepNum :
        Drafts(len, good)[i] = IF i <= good THEN len + i ELSE Wrong
  BY DraftElements
<1>3. ASSUME NEW i \in 1..(len + e), i > len
      PROVE  f[i] = IF i <= len + good THEN i ELSE Wrong
  <2>1. /\ i - len \in 1..e /\ i - len \in 1..MtpStepNum
        /\ len + (i - len) = i /\ (i - len <= good <=> i <= len + good)
    BY <1>1, <1>3
  <2>2. f[i] = Drafts(len, good)[i - len]
    BY <2>1 DEF EndsWithDrafts
  <2> QED BY <1>2, <2>1, <2>2
<1>4. ASSUME NEW i \in 1..(len + e), ~(i > len)
      PROVE  f[i] = i /\ i <= len + good
  <2>1. (i \in 1..(len - 1) \/ i = len) /\ i <= len + good
    BY <1>4
  <2> QED BY <2>1 DEF EndsWithDrafts
<1> QED BY <1>3, <1>4 DEF TextThenWrong

\* A step without drafts samples one token.
LEMMA SampleOne ==
  ASSUME LayoutInv, OutputInv, ~is_eos_generated, NEW t \in InflightTask,
         t.workload.draft_token_num = 0
  PROVE  /\ Accepted(t) = <<>> /\ Bonus(t) = <<SampledLen(t)>>
         /\ SampledLen(t) = out + 1
         /\ output_tokens \o Bonus(t) = Upto(SampledLen(t))
<1> DEFINE len == SampledLen(t)
           acc == Accepted(t)
           gen == Bonus(t)
<1>1. out \in Nat /\ output_tokens \in Seq(Token)
  BY StateNumbers, StateTypes DEF out
<1>2. PICK v \in Nat :
        /\ v <= 0 /\ len \in Nat /\ out < len /\ len <= out + v + 1
        /\ acc \in Seq(Token) /\ gen \in Seq(Token)
        /\ \A i \in 1..Len(acc) : acc[i] = out + i
        /\ \/ gen = <<len>> /\ len = out + v + 1 /\ Len(acc) = v
           \/ gen = <<>> /\ len = eos /\ Len(acc) = len - out /\ len <= out + v
  BY SampleEffect
<1> HIDE DEF len, acc, gen
<1>3. gen = <<len>> /\ len = out + 1 /\ Len(acc) = 0
  BY <1>1, <1>2
<1>4. acc = <<>>
  BY <1>2, <1>3, EmptySeq
<1>5. output_tokens \o acc \o gen = Upto(len)
  <2>1. len = out + Len(acc) + 1
    BY <1>1, <1>3
  <2> QED BY <1>2, <1>3, <2>1, TextGrows
<1>6. output_tokens \o acc = output_tokens
  BY <1>1, <1>4, ConcatEmptySeq
<1> QED BY <1>3, <1>4, <1>5, <1>6 DEF len, acc, gen

\* The last chunk with a step behind it: the bonus token and the drafts go into
\* that step's block.
LEMMA FinishFirst ==
  ASSUME PartInv, WorkInv, OutputInv, ~is_eos_generated, FirstAhead,
         NEW good \in 0..MtpStepNum, FinishStep(good)
  PROVE  OutputInv' /\ WorkInv' /\ ShapeInv'
<1> DEFINE t == inflight_tasks[1]
           u == inflight_tasks[2]
           e == u.workload.draft_token_num
           len == SampledLen(t)
           acc == Accepted(t)
           gen == Bonus(t)
           dr == Drafts(len, good)
           c == BlockOf(u, out)
<1>1. /\ FastPath /\ PromptLaunched
      /\ Len(inflight_tasks) = 2 /\ LastStep(t) /\ DecodeStep(u)
      /\ pending_placeholders = <<c>> /\ kv_cached_token_num = out
      /\ fwd = out + 1 + e
      /\ ForwardsText(out) /\ IsEmptyFrom(out)
  BY DEF FirstAhead
<1>2. HasInflightTask
  <2>1. Len(inflight_tasks) # 0
    BY <1>1
  <2> QED BY <2>1, SomeTask
<1>3. /\ t \in InflightTask /\ u \in InflightTask
      /\ t.workload.draft_token_num = 0 /\ t.sampling_token_num = 1
      /\ e \in Nat /\ e <= MtpStepNum
  <2>1. 1 \in 1..Len(inflight_tasks) /\ 2 \in 1..Len(inflight_tasks)
    BY <1>1
  <2>2. t \in InflightTask /\ u \in InflightTask
    BY <2>1, StateTypes, ElementOfSeq DEF PartInv
  <2> QED BY <1>1, <2>2, StepFields DEF LastStep, DecodeStep, OneDecode
<1>4. /\ out \in Nat /\ out >= 1 /\ MtpStepNum \in Nat /\ fwd \in Nat
      /\ forwarding_tokens \in Seq(Token) /\ Len(forwarding_tokens) = fwd
  BY StateNumbers, StateTypes DEF PartInv, OutputInv, out, fwd
<1>5. /\ good \in Nat /\ Retire(gen, acc, dr)
      /\ exec_len' = len /\ exec_good' = good /\ UNCHANGED eos
      /\ is_stopped' = (is_stopped \/ is_eos_generated')
  BY <1>3, FinishSampling DEF Samples
<1>6. /\ acc = <<>> /\ gen = <<len>> /\ len = out + 1
      /\ output_tokens \o gen = Upto(len) /\ len \in Nat
  BY <1>3, <1>4, SampleOne DEF PartInv
<1>7. dr \in Seq(Token) /\ Len(dr) = MtpStepNum
  BY <1>5, <1>6, DraftElements
<1>8. /\ c = [pos |-> out, draft |-> e] /\ c.pos = out /\ c.draft = e
      /\ BlockEnd(c) = out + 1 + e
  BY <1>3, <1>4 DEF BlockOf, BlockEnd
<1>9. forwarding_tokens[out + 1] = kFastPathPlaceholderTokenId
  <2> HIDE DEF e
  <2>1. out + 1 \in (out + 1)..fwd
    BY <1>1, <1>3, <1>4
  <2> QED BY <1>1, <2>1 DEF IsEmptyFrom
<1> HIDE DEF c, gen, acc, dr, len, e
<1>10. TryRetireBackfillNextPlaceholderBlock(gen, acc, dr)
  <2>1. ~IsSplitPrefillStep
    BY <1>1, <1>2, NotSplit
  <2>2. pending_placeholders # <<>> /\ Head(pending_placeholders) = c
    BY <1>1
  <2>3. BackfillsNext
    <3>1. out < fwd
      BY <1>1, <1>3, <1>4
    <3> QED BY <1>1, <1>8, <1>9, <2>2, <3>1 DEF BackfillsNext, fwd
  <2> QED BY <1>5, <2>1, <2>2, <2>3
          DEF Retire, RetireAfterEos, RetireSplitPrefill,
              RetireOwnPlaceholderBlockAndShift, RetireWithoutPlaceholder
<1>11. /\ infer_stage' = "decode" /\ generated_tokens' = <<>>
       /\ forwarding_tokens' = FillBlock(forwarding_tokens, c, len, dr)
       /\ output_tokens' = Upto(len)
       /\ is_eos_generated' = IsStopToken(output_tokens')
       /\ planning_workload' = DecodeWork(Len(gen), Len(dr))
       /\ UNCHANGED <<kv_cached_token_num, pending_placeholders>>
  <2>1. Head(pending_placeholders) = c
    BY <1>1
  <2>2. gen # <<>> /\ gen[1] = len
    BY <1>6
  <2> QED BY <1>6, <1>10, <2>1, <2>2
          DEF TryRetireBackfillNextPlaceholderBlock, NewDecodeWork
<1>12. /\ inflight_tasks' = Tail(inflight_tasks)
       /\ UNCHANGED planning_task /\ PromptLaunched'
  BY <1>1, RetireQueue DEF PromptLaunched
<1>13. Len(inflight_tasks') = 1 /\ inflight_tasks'[1] = u
  <2>1. /\ Len(inflight_tasks') = Len(inflight_tasks) - 1
        /\ \A i \in 1..(Len(inflight_tasks) - 1) :
             inflight_tasks'[i] = inflight_tasks[i + 1]
    BY <1>2, <1>12, StateTypes, TailElements DEF PartInv, HasInflightTask
  <2>2. 1 \in 1..(Len(inflight_tasks) - 1) /\ 1 + 1 = 2 /\ Len(inflight_tasks) - 1 = 1
    BY <1>1
  <2> QED BY <2>1, <2>2
\* The text.
<1>14. Sampled(t, good)
  BY <1>5, <1>11 DEF Sampled, len
<1>15. OutputInv' /\ out' = len /\ (is_eos_generated' <=> len = eos)
  BY <1>3, <1>14, OutputAfterSample DEF PartInv, len
<1>16. WorkInv'
  BY <1>3, <1>5, <1>11, <1>12, <1>15, WorkAfterSample
     DEF PartInv, len, gen, dr
\* The block.
<1>17. /\ forwarding_tokens' \in Seq(Token) /\ fwd' = len + e
       /\ \A i \in 1..(len - 1) : forwarding_tokens'[i] = i
       /\ forwarding_tokens'[len] = len
       /\ \A i \in 1..e : forwarding_tokens'[len + i] = dr[i]
  <2>1. /\ out + 1 + e <= Len(forwarding_tokens) /\ e <= Len(dr) /\ len \in Token
        /\ len - 1 = out /\ out + 1 = len /\ len + e = out + 1 + e
    BY <1>1, <1>3, <1>4, <1>6, <1>7 DEF Token
  <2> DEFINE next == FillBlock(forwarding_tokens, [pos |-> out, draft |-> e], len, dr)
  <2>2. /\ next \in Seq(Token) /\ Len(next) = Len(forwarding_tokens)
        /\ \A i \in 1..out : next[i] = forwarding_tokens[i]
        /\ next[out + 1] = len
        /\ \A i \in 1..e : next[(out + 1) + i] = dr[i]
    <3>1. /\ forwarding_tokens \in Seq(Token) /\ out \in Nat /\ e \in Nat
          /\ dr \in Seq(Token)
      BY <1>3, <1>4, <1>7
    <3>2. IsFilled(next, forwarding_tokens, out, e, len, dr)
      BY <2>1, <3>1, FillElements
    <3> HIDE DEF next
    <3> QED BY <3>2 DEF IsFilled
  <2>3. forwarding_tokens' = next
    BY <1>8, <1>11
  <2> HIDE DEF next
  <2>4. fwd' = Len(next)
    BY <2>3 DEF fwd
  <2> QED BY <1>1, <1>4, <2>1, <2>2, <2>3, <2>4 DEF ForwardsText
<1>18. CASE len = eos
  <2>1. fwd' - (1 + e) = out
    <3>1. fwd' = len + e /\ len = out + 1
      BY <1>6, <1>17
    <3> QED BY <1>3, <1>4, <3>1
  <2>2. Ended'
    BY <1>1, <1>11, <1>13, <2>1 DEF Ended, DecodeStep, BlockOf, c, e
  <2> QED BY <1>15, <1>16, <1>18, <2>2 DEF ShapeInv
<1>19. CASE len # eos
  <2>1. len - 1 = out /\ len >= 1
    BY <1>4, <1>6
  <2>2. \A i \in 1..(len + e) :
          forwarding_tokens'[i] = IF i <= len + good THEN i ELSE Wrong
    <3>1. e \in Nat /\ e <= MtpStepNum /\ good \in Nat /\ len \in Nat
      BY <1>3, <1>5, <1>6
    <3>2. EndsWithDrafts(forwarding_tokens', len, e, good)
      BY <1>17 DEF EndsWithDrafts, dr
    <3>3. TextThenWrong(forwarding_tokens', len + e, len + good)
      BY <2>1, <3>1, <3>2, FilledElements
    <3> QED BY <3>3 DEF TextThenWrong
  <2>3. IsTextAndDrafts(fwd)'
    BY <1>5, <1>15, <1>17, <2>2 DEF IsTextAndDrafts
  <2>4. OneStep'
    BY <1>1, <1>11, <1>12, <1>13, <1>15, <1>17, <2>1, <2>3
       DEF OneStep, DecodeStep, BlockOf, c, e
  <2> QED BY <1>15, <1>16, <1>19, <2>4 DEF ShapeInv
<1> QED BY <1>18, <1>19

\* One decode step on the slow path: the rejected drafts are cut off, and what
\* the step sampled waits in generated_tokens for the next launch.
LEMMA FinishOneSlow ==
  ASSUME PartInv, WorkInv, OutputInv, ~is_eos_generated, OneStep, ~FastPath,
         NEW good \in 0..MtpStepNum, FinishStep(good)
  PROVE  OutputInv' /\ WorkInv' /\ ShapeInv'
<1> DEFINE t == inflight_tasks[1]
           d == t.workload.draft_token_num
           len == SampledLen(t)
           acc == Accepted(t)
           gen == Bonus(t)
           dr == Drafts(len, good)
<1>1. /\ infer_stage = "decode" /\ PromptLaunched
      /\ Len(inflight_tasks) = 1 /\ DecodeStep(t)
      /\ fwd = out + d /\ IsTextAndDrafts(fwd)
      /\ pending_placeholders = <<>> /\ forwarding_tokens_draft_num = d
  BY DEF OneStep
<1>2. HasInflightTask
  <2>1. Len(inflight_tasks) # 0
    BY <1>1
  <2> QED BY <2>1, SomeTask
<1>3. /\ t \in InflightTask /\ t.workload.prefill_token_num = 0
      /\ d \in Nat /\ t.sampling_token_num = 1 + d
  <2>1. 1 \in 1..Len(inflight_tasks)
    BY <1>1
  <2>2. t \in InflightTask
    BY <2>1, StateTypes, ElementOfSeq DEF PartInv
  <2> QED BY <1>1, <2>2, StepFields DEF DecodeStep
<1>4. /\ out \in Nat /\ out >= 1 /\ MtpStepNum \in Nat /\ fwd \in Nat
      /\ exec_good \in Nat /\ forwarding_tokens \in Seq(Token)
      /\ Len(forwarding_tokens) = fwd
  BY StateNumbers, StateTypes DEF PartInv, OutputInv, out, fwd
<1>5. /\ good \in Nat /\ Retire(gen, acc, dr)
      /\ exec_len' = len /\ exec_good' = good /\ UNCHANGED eos
      /\ is_stopped' = (is_stopped \/ is_eos_generated')
  BY <1>3, FinishSampling DEF Samples
<1>6. Sample(t)
  BY <1>3, <1>4, SampleLengths DEF PartInv
<1>7. dr \in Seq(Token) /\ len \in Nat
  BY <1>5, <1>6, DraftElements DEF Sample
<1>8. /\ inflight_tasks' = <<>> /\ UNCHANGED planning_task /\ PromptLaunched'
  <2>1. Tail(inflight_tasks) = <<>>
    BY <1>1, <1>2, StateTypes, TailElements DEF PartInv, HasInflightTask
  <2> QED BY <1>1, <2>1, RetireQueue DEF PromptLaunched
<1>9. /\ acc \in Seq(Token) /\ gen \in Seq(Token) /\ Len(acc) \in Nat
      /\ \A i \in 1..Len(acc) : acc[i] = out + i
      /\ Len(acc) <= d /\ Len(acc) <= exec_good
      /\ \/ gen = <<len>> /\ len = out + Len(acc) + 1
         \/ gen = <<>> /\ len = eos /\ len = out + Len(acc)
  BY <1>6 DEF Sample
<1> HIDE DEF gen, acc, dr, len, d
<1>10. RetireWithoutPlaceholder(gen, acc, dr)
  <2>1. ~IsSplitPrefillStep
    BY <1>2, <1>3, NotSplit
  <2> QED BY <1>1, <1>5, <2>1
          DEF Retire, RetireAfterEos, RetireSplitPrefill,
              TryRetireBackfillNextPlaceholderBlock,
              RetireOwnPlaceholderBlockAndShift
<1>11. Head(inflight_tasks) = t /\ (d = 0 => acc = <<>>)
  <2>1. Head(inflight_tasks) = t
    BY <1>2, StateTypes, TailElements DEF PartInv, HasInflightTask
  <2>2. d = 0 => Len(acc) = 0
    BY <1>9
  <2> QED BY <1>9, <2>1, <2>2, EmptySeq
<1> DEFINE n == out + Len(acc)
           cut == IF d > 0 THEN Resize(forwarding_tokens, fwd - d + Len(acc))
                  ELSE forwarding_tokens
<1>12. /\ infer_stage' = "decode" /\ generated_tokens' = gen /\ draft_tokens' = dr
       /\ forwarding_tokens' = cut /\ kv_cached_token_num' = Len(cut)
       /\ output_tokens' = output_tokens \o (IF d > 0 THEN acc ELSE <<>>) \o gen
       /\ is_eos_generated' = IsStopToken(output_tokens')
       /\ planning_workload' = PlanningAfter(gen, dr)
       /\ pending_placeholders' = <<>>
  BY <1>1, <1>10, <1>11 DEF RetireWithoutPlaceholder, fwd, d
<1>13. (IF d > 0 THEN acc ELSE <<>>) = acc
  BY <1>3, <1>11
<1>14. cut \in Seq(Token) /\ Len(cut) = n /\ \A i \in 1..n : cut[i] = i
  <2>1. n \in Nat /\ n <= fwd /\ fwd - d + Len(acc) = n /\ n <= out + exec_good
    <3>1. /\ out \in Nat /\ d \in Nat /\ Len(acc) \in Nat /\ exec_good \in Nat
          /\ fwd = out + d /\ Len(acc) <= d /\ Len(acc) <= exec_good
      BY <1>1, <1>3, <1>4, <1>9
    <3> QED BY <3>1
  <2>2. \A i \in 1..n : forwarding_tokens[i] = i
    <3>1. \A i \in 1..n : i \in 1..fwd /\ i <= out + exec_good
      BY <1>4, <2>1
    <3> QED BY <1>1, <3>1 DEF IsTextAndDrafts
  <2>3. CASE d > 0
    <3>1. cut = [i \in 1..n |-> IF i <= fwd THEN forwarding_tokens[i] ELSE 0]
      BY <1>4, <2>1, <2>3 DEF Resize
    <3>2. \A i \in 1..n : i <= fwd
      BY <1>4, <2>1
    <3>3. cut = Upto(n)
      BY <2>2, <3>1, <3>2 DEF Upto
    <3> QED BY <2>1, <3>3, UptoElements
  <2>4. CASE d = 0
    <3>1. cut = forwarding_tokens /\ fwd = n
      BY <1>1, <1>4, <1>9, <2>4
    <3> QED BY <1>4, <2>2, <3>1
  <2> QED BY <1>3, <2>3, <2>4
<1> HIDE DEF cut, n
\* The text.
<1>15. output_tokens' = Upto(len)
  BY <1>7, <1>9, <1>12, <1>13, TextGrows DEF PartInv
<1>16. Sampled(t, good)
  BY <1>5, <1>12, <1>15 DEF Sampled, len
<1>17. OutputInv' /\ out' = len /\ (is_eos_generated' <=> len = eos)
  BY <1>3, <1>16, OutputAfterSample DEF PartInv, len
<1>18. WorkInv'
  BY <1>3, <1>5, <1>8, <1>12, <1>17, WorkAfterSample DEF PartInv, len, gen, dr
<1>19. CASE len = eos
  BY <1>8, <1>12, <1>17, <1>18, <1>19 DEF ShapeInv, Ended
<1>20. CASE len # eos
  <2>1. gen = <<len>> /\ n = len - 1
    BY <1>4, <1>9, <1>20 DEF n
  <2>2. fwd' = n /\ ForwardsText(fwd)'
    BY <1>12, <1>14 DEF fwd, ForwardsText
  <2>3. Drained'
    BY <1>5, <1>8, <1>12, <1>14, <1>17, <2>1, <2>2 DEF Drained, dr
  <2> QED BY <1>17, <1>18, <1>20, <2>3 DEF ShapeInv
<1> QED BY <1>19, <1>20

\* One decode step on the fast path, with nothing launched behind it because
\* the request was stopped: its block is cut and no placeholder is left.
LEMMA FinishOneFast ==
  ASSUME PartInv, WorkInv, OutputInv, ~is_eos_generated, OneStep, FastPath,
         AheadOfTime, LaunchedAhead, NEW good \in 0..MtpStepNum, FinishStep(good)
  PROVE  OutputInv' /\ WorkInv' /\ ShapeInv'
<1> DEFINE t == inflight_tasks[1]
           d == t.workload.draft_token_num
           len == SampledLen(t)
           acc == Accepted(t)
           gen == Bonus(t)
           dr == Drafts(len, good)
           b == BlockOf(t, out - 1)
           trimmed == d - Len(acc)
           rest == MovedBlocks(b, trimmed)
           kept == TrimBlock(b, acc)
           n == out + Len(acc)
<1>1. /\ infer_stage = "decode" /\ PromptLaunched
      /\ Len(inflight_tasks) = 1 /\ DecodeStep(t)
      /\ fwd = out + d /\ IsTextAndDrafts(fwd)
      /\ pending_placeholders = <<b>>
  BY DEF OneStep
<1>2. HasInflightTask
  <2>1. Len(inflight_tasks) # 0
    BY <1>1
  <2> QED BY <2>1, SomeTask
<1>3. /\ t \in InflightTask /\ t.workload.prefill_token_num = 0
      /\ d \in Nat /\ t.sampling_token_num = 1 + d
  <2>1. 1 \in 1..Len(inflight_tasks)
    BY <1>1
  <2>2. t \in InflightTask
    BY <2>1, StateTypes, ElementOfSeq DEF PartInv
  <2> QED BY <1>1, <2>2, StepFields DEF DecodeStep
<1>4. /\ out \in Nat /\ out >= 1 /\ MtpStepNum \in Nat /\ fwd \in Nat
      /\ exec_good \in Nat /\ forwarding_tokens \in Seq(Token)
      /\ Len(forwarding_tokens) = fwd
  BY StateNumbers, StateTypes DEF PartInv, OutputInv, out, fwd
<1>5. /\ good \in Nat /\ Retire(gen, acc, dr)
      /\ exec_len' = len /\ exec_good' = good /\ UNCHANGED eos
      /\ is_stopped' = (is_stopped \/ is_eos_generated')
  BY <1>3, FinishSampling DEF Samples
<1>6. /\ len \in Nat /\ acc \in Seq(Token) /\ gen \in Seq(Token)
      /\ Len(acc) \in Nat /\ \A i \in 1..Len(acc) : acc[i] = out + i
      /\ Len(acc) <= d
      /\ \/ gen = <<len>> /\ len = out + Len(acc) + 1
         \/ gen = <<>> /\ len = eos /\ len = out + Len(acc)
  <2>1. Sample(t)
    BY <1>3, SampleLengths DEF PartInv
  <2> QED BY <2>1 DEF Sample
<1>7. ~IsSplitPrefillStep /\ is_stopped
  <2>1. ~IsSplitPrefillStep
    BY <1>2, <1>3, NotSplit
  <2>2. Len(inflight_tasks) # max_depth
    BY <1>1 DEF max_depth, kMaxInflightDepth
  <2> QED BY <2>1, <2>2 DEF LaunchedAhead, AheadOfTime
<1>8. /\ inflight_tasks' = <<>> /\ UNCHANGED planning_task /\ PromptLaunched'
  <2>1. Tail(inflight_tasks) = <<>>
    BY <1>1, <1>2, StateTypes, TailElements DEF PartInv, HasInflightTask
  <2> QED BY <1>1, <2>1, RetireQueue DEF PromptLaunched
<1>9. /\ b = [pos |-> out - 1, draft |-> d] /\ b.pos = out - 1 /\ b.draft = d
      /\ (out - 1) + 1 = out /\ out - 1 \in Nat
  BY <1>3, <1>4 DEF BlockOf
<1> HIDE DEF b, gen, acc, dr, len, d
<1>10. RetireOwnPlaceholderBlockAndShift(gen, acc, dr)
  <2>1. pending_placeholders # <<>>
    BY <1>1
  <2>2. ~BackfillsNext
    BY <1>1 DEF BackfillsNext
  <2> QED BY <1>5, <1>7, <2>1, <2>2
          DEF Retire, RetireAfterEos, RetireSplitPrefill,
              TryRetireBackfillNextPlaceholderBlock, RetireWithoutPlaceholder
<1>11. rest = <<>>
  <2>1. rest = [i \in 1..0 |-> Shifted(pending_placeholders[i + 1], b, trimmed)]
    BY <1>1 DEF MovedBlocks
  <2> QED BY <2>1
<1>12. /\ infer_stage' = "decode" /\ generated_tokens' = <<>>
       /\ pending_placeholders' = <<>>
       /\ forwarding_tokens' = kept
       /\ output_tokens' = output_tokens \o acc \o gen
       /\ is_eos_generated' = IsStopToken(output_tokens')
       /\ kv_cached_token_num' = VerifiedLen(b, Len(acc))
       /\ planning_workload' = DecodeWork(Len(gen), Len(dr))
  <2>1. Head(pending_placeholders) = b
    BY <1>1
  <2>2. b.draft - Len(acc) = trimmed
    BY <1>9
  <2> HIDE DEF trimmed
  <2> QED BY <1>10, <1>11, <2>1, <2>2
          DEF RetireOwnPlaceholderBlockAndShift, MovedBlocks, NewDecodeWork
\* The text.
<1>13. output_tokens' = Upto(len)
  BY <1>6, <1>12, TextGrows DEF PartInv
<1>14. Sampled(t, good)
  BY <1>5, <1>12, <1>13 DEF Sampled, len
<1>15. OutputInv' /\ out' = len /\ (is_eos_generated' <=> len = eos)
  BY <1>3, <1>14, OutputAfterSample DEF PartInv, len
<1>16. WorkInv'
  BY <1>3, <1>5, <1>8, <1>12, <1>15, WorkAfterSample
     DEF PartInv, len, gen, dr
\* What is left to forward.
<1>17. /\ kept \in Seq(Token) /\ Len(kept) = n /\ \A i \in 1..n : kept[i] = i
  <2> DEFINE pos == out - 1
  <2>1. pos \in Nat /\ pos + 1 = out /\ pos + 1 + d <= fwd
        /\ b = [pos |-> pos, draft |-> d]
    BY <1>1, <1>3, <1>4, <1>9
  <2> HIDE DEF pos
  <2>2. /\ kept \in Seq(Token) /\ Len(kept) = fwd - (d - Len(acc))
        /\ \A i \in 1..(pos + 1) : kept[i] = forwarding_tokens[i]
        /\ \A i \in 1..Len(acc) : kept[(pos + 1) + i] = acc[i]
    <3>1. d \in Nat /\ Len(acc) <= d /\ forwarding_tokens \in Seq(Token)
          /\ acc \in Seq(Token)
      BY <1>3, <1>4, <1>6
    <3>2. kept = TrimBlock([pos |-> pos, draft |-> d], acc)
      BY <2>1
    <3> HIDE DEF kept
    <3>3. IsTrimmed(kept, pos, d, acc)
      BY <2>1, <3>1, <3>2, TrimElements
    <3> QED BY <3>3 DEF IsTrimmed
  <2> HIDE DEF kept
  <2>3. fwd - (d - Len(acc)) = n
    BY <1>1, <1>3, <1>4, <1>6
  <2>4. \A i \in 1..out : forwarding_tokens[i] = i
    <3>1. \A i \in 1..out : i \in 1..fwd /\ i <= out + exec_good
      BY <1>1, <1>3, <1>4
    <3> QED BY <1>1, <3>1 DEF IsTextAndDrafts
  <2>5. ASSUME NEW i \in 1..n PROVE kept[i] = i
    <3>1. CASE i <= out
      <4>1. i \in 1..out
        BY <1>4, <1>6, <3>1
      <4> QED BY <2>1, <2>2, <2>4, <4>1
    <3>2. CASE ~(i <= out)
      <4>1. i - out \in 1..Len(acc) /\ out + (i - out) = i
        BY <1>4, <1>6, <3>2
      <4> QED BY <1>6, <2>1, <2>2, <4>1
    <3> QED BY <3>1, <3>2
  <2> QED BY <2>2, <2>3, <2>5
<1> HIDE DEF kept, rest, trimmed
<1>18. fwd' = n /\ ForwardsText(fwd)' /\ kv_cached_token_num' = n
  BY <1>4, <1>6, <1>9, <1>12, <1>17 DEF fwd, ForwardsText, VerifiedLen
<1> HIDE DEF n
<1>19. CASE len = eos
  BY <1>8, <1>12, <1>15, <1>16, <1>19 DEF ShapeInv, Ended
<1>20. CASE len # eos
  <2>1. n = len - 1
    BY <1>4, <1>6, <1>20 DEF n
  <2>2. Drained'
    BY <1>5, <1>7, <1>8, <1>12, <1>15, <1>18, <2>1 DEF Drained
  <2> QED BY <1>15, <1>16, <1>20, <2>2 DEF ShapeInv
<1> QED BY <1>19, <1>20

\* The chunk that ends the prompt is the last one launched.
LEMMA LastStepIsLast ==
  ASSUME PartInv, Prompting, HasInflightTask, LastStep(inflight_tasks[1])
  PROVE  Len(inflight_tasks) = 1 /\ PromptLaunched /\ fwd = Len(prefilling_tokens)
<1> DEFINE t == inflight_tasks[1]
           len == Len(prefilling_tokens)
           k == Len(inflight_tasks)
<1>1. /\ k \in Nat /\ k >= 1 /\ len \in Nat
      /\ inflight_tasks \in Seq(InflightTask)
      /\ remaining_workload.prefill_token_num \in Nat
      /\ remaining_workload.prefill_start_offset \in Nat
      /\ planning_task.workload.prefill_token_num \in Nat
      /\ planning_task.workload.prefill_start_offset \in Nat
  BY StateTypes, StateNumbers, WorkloadFields, TailElements
     DEF PartInv, HasInflightTask
<1>2. k = 1
  <2> SUFFICES ASSUME k # 1 PROVE FALSE
    OBVIOUS
  <2> DEFINE u == inflight_tasks[2]
  <2>1. 2 \in 1..k /\ 2 > 1 /\ 2 - 1 = 1
    <3>1. k \in Nat /\ k >= 1 /\ k # 1
      BY <1>1
    <3> HIDE DEF k
    <3> QED BY <3>1
  <2>2. u \in InflightTask
    BY <1>1, <2>1, ElementOfSeq
  <2>3. MidStep(u) \/ LastStep(u)
    BY <2>1 DEF Prompting
  <2>4. IsChunk(u.workload) /\ ChunkEnd(u.workload) <= len
    BY <1>1, <2>2, <2>3, StepFields DEF MidStep, LastStep
  <2>5. u.workload.prefill_start_offset = ChunkEnd(t.workload)
    BY <2>1, <2>4 DEF PartInv, ChunksTile
  <2>6. u.workload.prefill_start_offset = len
    BY <2>5 DEF LastStep
  <2> HIDE DEF len, u
  <2>7. ChunkEnd(u.workload) > u.workload.prefill_start_offset
    BY <2>2, <2>4, StepFields DEF ChunkEnd, IsChunk
  <2> QED BY <1>1, <2>2, <2>4, <2>6, <2>7, StepFields
<1>3. PromptLaunched
  <2> SUFFICES ASSUME ~PromptLaunched PROVE FALSE
    OBVIOUS
  <2>1. NextStart = len
    BY <1>2 DEF PartInv, ChunksTile, Last, LastStep
  <2>2. ChunkEnd(remaining_workload) = len
    BY StateTypes DEF PartInv
  <2> HIDE DEF len
  <2>3. CASE IsChunk(planning_task.workload)
    <3>1. ChunkEnd(planning_task.workload) = remaining_workload.prefill_start_offset
      BY <2>3 DEF PartInv, ChunksTile
    <3> QED BY <1>1, <2>1, <2>2, <2>3, <3>1 DEF NextStart, IsChunk, ChunkEnd
  <2>4. CASE ~IsChunk(planning_task.workload)
    BY <1>1, <2>1, <2>2, <2>4 DEF NextStart, PromptLaunched, ChunkEnd
  <2> QED BY <2>3, <2>4
<1>4. fwd = len
  <2>1. fwd = NextStart
    BY DEF Prompting, HasInflightTask
  <2>2. ChunkEnd(remaining_workload) = len
    BY StateTypes DEF PartInv
  <2> HIDE DEF len
  <2> QED BY <1>1, <1>3, <2>1, <2>2 DEF NextStart, PromptLaunched, ChunkEnd
<1> QED BY <1>2, <1>3, <1>4

\* A chunk that does not end the prompt retires without a token.
LEMMA FinishMidChunk ==
  ASSUME PartInv, WorkInv, OutputInv, ~is_eos_generated, Prompting,
         MidStep(inflight_tasks[1]),
         NEW good \in 0..MtpStepNum, FinishStep(good)
  PROVE  OutputInv' /\ WorkInv' /\ ShapeInv'
<1> DEFINE t == inflight_tasks[1]
           k == Len(inflight_tasks)
<1>1. /\ HasInflightTask /\ inflight_tasks' = Tail(inflight_tasks)
      /\ UNCHANGED <<prefilling_tokens, planning_task, eos,
                     remaining_workload.prefill_token_num,
                     remaining_workload.prefill_start_offset>>
      /\ is_stopped' = (is_stopped \/ is_eos_generated')
  BY RetireQueue
<1>2. /\ inflight_tasks # <<>> /\ Head(inflight_tasks) = t /\ t \in InflightTask
      /\ k \in Nat /\ k >= 1 /\ Len(inflight_tasks') = k - 1
      /\ inflight_tasks' \in Seq(InflightTask)
      /\ \A i \in 1..(k - 1) : inflight_tasks'[i] = inflight_tasks[i + 1]
  BY <1>1, StateTypes, TailElements DEF PartInv, HasInflightTask
<1>3. IsSplitPrefillStep /\ ~Samples(t)
  <2>1. /\ t.workload.prefill_token_num > 0
        /\ ChunkEnd(t.workload) < Len(prefilling_tokens)
        /\ t.sampling_token_num = 0
    BY DEF MidStep, IsChunk
  <2>2. ChunkEnd(t.workload)
          = t.workload.prefill_token_num + t.workload.prefill_start_offset
    BY <1>2, StepFields DEF ChunkEnd
  <2>3. ~(t.sampling_token_num > 0)
    BY <2>1
  <2> HIDE DEF t
  <2> QED BY <1>1, <1>2, <2>1, <2>2, <2>3 DEF IsSplitPrefillStep, Samples
<1>4. /\ Retire(<<>>, <<>>, <<>>) /\ UNCHANGED <<exec_len, exec_good>>
  BY <1>2, <1>3 DEF FinishStep
<1>5. RetireSplitPrefill(<<>>)
  BY <1>3, <1>4 DEF Retire, RetireAfterEos, TryRetireBackfillNextPlaceholderBlock,
                    RetireOwnPlaceholderBlockAndShift, RetireWithoutPlaceholder
<1>6. /\ generated_tokens' = <<>> /\ draft_tokens' = <<>>
      /\ planning_workload' = PlanningAfter(<<>>, <<>>)
      /\ UNCHANGED <<output_tokens, forwarding_tokens, forwarding_tokens_draft_num,
                     infer_stage, pending_placeholders, is_eos_generated>>
  BY <1>5 DEF RetireSplitPrefill
<1>7. is_stopped' = FALSE /\ ~is_eos_generated'
  BY <1>1, <1>6 DEF Prompting
<1>8. OutputInv'
  BY <1>1, <1>4, <1>6, <1>7 DEF OutputInv, OutputIsText, out
<1>9. WorkInv'
  <2>1. \/ IsChunk(planning_workload')
        \/ planning_workload' = DecodeWork(0, 0)
    BY <1>6, EmptySeq DEF PlanningAfter, IsChunk, PrefillWork
  <2>2. IsChunk(planning_workload') \/ IsEmpty(planning_workload')
    BY <2>1 DEF IsEmpty, GetTokenNum, DecodeWork
  <2>3. UNCHANGED planning_task
    BY <1>1
  <2> QED BY <2>2, <2>3 DEF WorkInv, HasPlanningTask
<1>10. NextStart' = NextStart /\ PromptLaunched' = PromptLaunched
  BY <1>1 DEF NextStart, PromptLaunched
<1>11. ASSUME NEW i \in 1..(k - 1)
       PROVE  (MidStep(inflight_tasks[i]) \/ LastStep(inflight_tasks[i]))'
  <2>1. i + 1 \in 1..k
    BY <1>2
  <2>2. MidStep(inflight_tasks[i + 1]) \/ LastStep(inflight_tasks[i + 1])
    BY <2>1 DEF Prompting
  <2>3. inflight_tasks'[i] = inflight_tasks[i + 1]
    BY <1>2
  <2> QED BY <1>1, <2>2, <2>3 DEF MidStep, LastStep
<1>12. PromptLaunched'
         => /\ inflight_tasks' # <<>>
            /\ LastStep(inflight_tasks[Len(inflight_tasks)])'
  <2> SUFFICES ASSUME PromptLaunched
               PROVE  /\ inflight_tasks' # <<>>
                      /\ LastStep(inflight_tasks[Len(inflight_tasks)])'
    BY <1>10
  <2>1. LastStep(inflight_tasks[k])
    BY DEF Prompting
  <2>2. k # 1
    BY <2>1 DEF MidStep, LastStep
  <2>3. k - 1 \in 1..(k - 1) /\ (k - 1) + 1 = k /\ k - 1 # 0
    BY <1>2, <2>2
  <2>4. inflight_tasks' # <<>>
    BY <1>2, <2>3, EmptySeq
  <2>5. inflight_tasks'[Len(inflight_tasks')] = inflight_tasks[k]
    BY <1>2, <2>3
  <2> QED BY <1>1, <2>1, <2>4, <2>5 DEF LastStep
<1>13. fwd' = NextStart'
  BY <1>2, <1>6, <1>10 DEF Prompting, fwd
<1>14. Prompting'
  <2>1. ForwardsText(fwd)'
    BY <1>6 DEF Prompting, ForwardsText, fwd
  <2> QED BY <1>1, <1>2, <1>6, <1>7, <1>11, <1>12, <1>13, <2>1 DEF Prompting
<1> QED BY <1>7, <1>8, <1>9, <1>14 DEF ShapeInv

\* The chunk that ends the prompt, with nothing behind it: on the slow path.
LEMMA FinishLastChunk ==
  ASSUME PartInv, WorkInv, OutputInv, ~is_eos_generated, Prompting,
         LastStep(inflight_tasks[1]), AheadOfTime, LaunchedAhead,
         NEW good \in 0..MtpStepNum, FinishStep(good)
  PROVE  OutputInv' /\ WorkInv' /\ ShapeInv'
<1> DEFINE t == inflight_tasks[1]
           len == SampledLen(t)
           acc == Accepted(t)
           gen == Bonus(t)
           dr == Drafts(len, good)
<1>1. HasInflightTask
  BY DEF FinishStep
<1>2. /\ Len(inflight_tasks) = 1 /\ PromptLaunched /\ fwd = Len(prefilling_tokens)
  BY <1>1, LastStepIsLast
<1>3. /\ t \in InflightTask /\ Head(inflight_tasks) = t
      /\ t.workload.draft_token_num = 0 /\ t.sampling_token_num = 1
  BY <1>1, StateTypes, TailElements DEF PartInv, HasInflightTask, LastStep
<1>4. /\ out \in Nat /\ out >= 1 /\ forwarding_tokens \in Seq(Token)
  BY StateNumbers, StateTypes DEF PartInv, OutputInv, out
<1>5. ~IsSplitPrefillStep
  BY <1>1, NotSplit
<1>6. ~FastPath
  <2>1. Len(inflight_tasks) # 2
    BY <1>2
  <2> QED BY <1>5, <2>1
          DEF LaunchedAhead, AheadOfTime, max_depth, kMaxInflightDepth, Prompting
<1>7. /\ good \in Nat /\ Retire(gen, acc, dr)
      /\ exec_len' = len /\ exec_good' = good /\ UNCHANGED eos
      /\ is_stopped' = (is_stopped \/ is_eos_generated')
  BY <1>3, FinishSampling DEF Samples
<1>8. /\ acc = <<>> /\ gen = <<len>> /\ len = out + 1
      /\ output_tokens \o gen = Upto(len) /\ len \in Nat
  BY <1>3, <1>4, SampleOne DEF PartInv
<1>9. /\ inflight_tasks' = <<>> /\ UNCHANGED planning_task /\ PromptLaunched'
  <2>1. Tail(inflight_tasks) = <<>>
    BY <1>1, <1>2, StateTypes, TailElements DEF PartInv, HasInflightTask
  <2> QED BY <1>2, <2>1, RetireQueue DEF PromptLaunched
<1> HIDE DEF gen, acc, dr, len
<1>10. RetireWithoutPlaceholder(gen, acc, dr)
  BY <1>5, <1>7 DEF Retire, RetireAfterEos, RetireSplitPrefill,
                    TryRetireBackfillNextPlaceholderBlock,
                    RetireOwnPlaceholderBlockAndShift, Prompting
<1>11. /\ infer_stage' = "decode" /\ generated_tokens' = gen /\ draft_tokens' = dr
       /\ UNCHANGED forwarding_tokens /\ kv_cached_token_num' = fwd
       /\ output_tokens' = output_tokens \o <<>> \o gen
       /\ is_eos_generated' = IsStopToken(output_tokens')
       /\ planning_workload' = PlanningAfter(gen, dr)
       /\ pending_placeholders' = <<>>
  <2>1. ~(Head(inflight_tasks).workload.draft_token_num > 0)
    BY <1>3
  <2> QED BY <1>10, <2>1 DEF RetireWithoutPlaceholder, fwd, Prompting
<1>12. output_tokens' = Upto(len)
  <2>1. output_tokens \in Seq(Token)
    BY StateTypes DEF PartInv
  <2>2. output_tokens \o <<>> = output_tokens
    BY <2>1, ConcatEmptySeq
  <2> QED BY <1>8, <1>11, <2>2
<1>13. Sampled(t, good)
  BY <1>7, <1>11, <1>12 DEF Sampled, len
<1>14. OutputInv' /\ out' = len /\ (is_eos_generated' <=> len = eos)
  BY <1>3, <1>13, OutputAfterSample DEF PartInv, len
<1>15. WorkInv'
  BY <1>3, <1>7, <1>9, <1>11, <1>14, WorkAfterSample DEF PartInv, len, gen, dr
<1>16. fwd' = out /\ fwd' = fwd /\ ForwardsText(fwd)'
  BY <1>2, <1>11 DEF Prompting, ForwardsText, fwd, out
<1>17. CASE len = eos
  BY <1>9, <1>11, <1>14, <1>15, <1>17 DEF ShapeInv, Ended
<1>18. CASE len # eos
  <2>1. out = len - 1
    BY <1>4, <1>8
  <2>2. Drained'
    BY <1>6, <1>7, <1>8, <1>9, <1>11, <1>14, <1>16, <2>1 DEF Drained, dr
  <2> QED BY <1>14, <1>15, <1>18, <2>2 DEF ShapeInv
<1> QED BY <1>17, <1>18

\* A step behind the stop token: what it sampled is dropped, with its block.
LEMMA FinishEnded ==
  ASSUME PartInv, WorkInv, OutputInv, ShapeInv, is_eos_generated,
         NEW good \in 0..MtpStepNum, FinishStep(good)
  PROVE  OutputInv' /\ WorkInv' /\ ShapeInv'
<1> DEFINE t == inflight_tasks[1]
<1>1. /\ HasInflightTask /\ inflight_tasks' = Tail(inflight_tasks)
      /\ UNCHANGED <<planning_task, eos>> /\ is_eos_generated'
      /\ is_stopped' = (is_stopped \/ is_eos_generated')
  BY RetireQueue
<1>2. /\ Len(inflight_tasks) = 1 /\ Len(pending_placeholders) = 1
      /\ pending_placeholders # <<>>
  BY <1>1 DEF ShapeInv, Ended, HasInflightTask
<1>3. Retire(<<>>, <<>>, <<>>) /\ UNCHANGED <<exec_len, exec_good>>
  BY DEF FinishStep
<1>4. RetireAfterEos
  BY <1>3 DEF Retire, RetireSplitPrefill, TryRetireBackfillNextPlaceholderBlock,
              RetireOwnPlaceholderBlockAndShift, RetireWithoutPlaceholder
<1>5. inflight_tasks' = <<>>
  BY <1>1, <1>2, StateTypes, TailElements DEF PartInv, HasInflightTask
<1>6. pending_placeholders' = <<>>
  <2>1. Tail(pending_placeholders) = <<>>
    BY <1>2, StateTypes, TailElements DEF PartInv
  <2> QED BY <1>2, <1>4, <2>1 DEF RetireAfterEos, PendingAfterEos
<1>7. UNCHANGED output_tokens
  BY <1>4 DEF RetireAfterEos
<1>8. is_stopped'
  <2>1. (is_stopped \/ is_eos_generated') = TRUE
    BY <1>1
  <2> QED BY <1>1, <2>1
<1>9. OutputInv'
  BY <1>1, <1>3, <1>7, <1>8 DEF OutputInv, OutputIsText, out
<1>10. WorkInv'
  BY <1>1 DEF WorkInv, HasPlanningTask
<1> QED BY <1>1, <1>5, <1>6, <1>9, <1>10 DEF ShapeInv, Ended

-----------------------------------------------------------------------------
(***************************************************************************)
(* Launches.                                                               *)
(***************************************************************************)

\* A launch tells the client nothing and leaves nothing planned but what the
\* scheduler would plan next.
LEMMA LaunchKeeps ==
  ASSUME WorkInv, OutputInv, LaunchPlanningTask
  PROVE  /\ OutputInv' /\ WorkInv' /\ ~is_eos_generated /\ ~is_eos_generated'
         /\ ~is_stopped /\ HasPlanningTask /\ HasInflightCapacity
         /\ UNCHANGED <<output_tokens, prefilling_tokens, generated_tokens,
                        infer_stage, remaining_workload, is_stopped,
                        eos, exec_len, exec_good>>
<1>1. /\ ~is_stopped /\ HasPlanningTask /\ HasInflightCapacity
      /\ UNCHANGED <<output_tokens, prefilling_tokens, generated_tokens,
                     infer_stage, planning_workload, remaining_workload,
                     is_eos_generated, is_stopped, eos, exec_len, exec_good>>
  BY DEF LaunchPlanningTask, executor
<1>2. ~HasPlanningTask'
  BY AfterLaunch
<1>3. ~is_eos_generated
  BY <1>1 DEF OutputInv
<1>4. OutputInv'
  BY <1>1 DEF OutputInv, OutputIsText, out
<1>5. WorkInv'
  BY <1>1, <1>2 DEF WorkInv
<1> QED BY <1>1, <1>3, <1>4, <1>5

\* Where the prompt ends once all of it is launched.
LEMMA PromptEnd ==
  ASSUME LayoutInv, PromptLaunched
  PROVE  NextStart = Len(prefilling_tokens)
<1>1. ChunkEnd(remaining_workload) = Len(prefilling_tokens)
      /\ remaining_workload \in Workload
  BY StateTypes
<1> QED BY <1>1, WorkloadFields, StateNumbers DEF PromptLaunched, NextStart, ChunkEnd

\* A chunk of the prompt.
LEMMA ShapeLaunchPrefill ==
  ASSUME PartInv, OutputInv, Prompting, LaunchPlanningTask, LaunchPrefill
  PROVE  Prompting'
<1> DEFINE w == planning_task.workload
           k == Len(inflight_tasks)
           end == ChunkEnd(w)
<1>1. /\ HasInflightCapacity
      /\ UNCHANGED <<output_tokens, prefilling_tokens, generated_tokens,
                     infer_stage, remaining_workload, is_stopped>>
  BY DEF LaunchPlanningTask
<1>2. draft_tokens = <<>> /\ Len(draft_tokens) = 0 /\ prefilling_tokens = output_tokens
  BY EmptySeq DEF Prompting
<1>3. PICK t \in InflightTask :
         /\ IsChunk(w) /\ end \in Nat /\ end <= Len(prefilling_tokens)
         /\ inflight_tasks' = Append(inflight_tasks, t)
         /\ t.workload.prefill_token_num = w.prefill_token_num
         /\ t.workload.prefill_start_offset = w.prefill_start_offset
         /\ t.workload.draft_token_num = 0
         /\ t.kind = IF end = Len(prefilling_tokens) THEN "prefill"
                     ELSE "prefill_chunk_mid"
         /\ t.sampling_token_num = IF end = Len(prefilling_tokens) THEN 1 ELSE 0
         /\ ~t.placeholder
         /\ Len(forwarding_tokens') = end
         /\ \A i \in 1..end : forwarding_tokens'[i] =
              IF i <= w.prefill_start_offset
                 /\ Len(forwarding_tokens) = w.prefill_start_offset
                THEN forwarding_tokens[i] ELSE prefilling_tokens[i]
         /\ forwarding_tokens_draft_num' = 0
         /\ UNCHANGED <<draft_tokens, pending_placeholders>>
  <2>1. Len(IF end = Len(prefilling_tokens) THEN draft_tokens ELSE <<>>) = 0
    BY <1>2, EmptySeq
  <2>2. 1 + 0 = 1 /\ end + 0 = end
    <3>1. end \in Nat
      BY <1>1, LaunchPrefillEffect
    <3> QED BY <3>1
  <2>3. NewStep \in InflightTask
    BY <1>1, LaunchPrefillEffect
  <2> WITNESS NewStep \in InflightTask
  <2> HIDE DEF w, end
  <2> QED BY <1>1, <2>1, <2>2, LaunchPrefillEffect DEF w, end
<1>4. ChunkEnd(t.workload) = end /\ IsChunk(t.workload)
  BY <1>3 DEF ChunkEnd, IsChunk
<1>5. (MidStep(t) \/ LastStep(t))' /\ (end = Len(prefilling_tokens) => LastStep(t)')
  <2>1. CASE end = Len(prefilling_tokens)
    BY <1>1, <1>3, <1>4, <2>1 DEF LastStep
  <2>2. CASE end # Len(prefilling_tokens)
    <3>1. end < Len(prefilling_tokens)
      <4>1. Len(prefilling_tokens) \in Nat
        BY StateNumbers DEF PartInv
      <4>2. end \in Nat /\ end <= Len(prefilling_tokens)
        BY <1>3
      <4> HIDE DEF end
      <4> QED BY <2>2, <4>1, <4>2
    <3> QED BY <1>1, <1>3, <1>4, <2>2, <3>1 DEF MidStep
  <2> QED BY <2>1, <2>2
<1>6. /\ k \in Nat /\ inflight_tasks' # <<>> /\ Len(inflight_tasks') = k + 1
      /\ \A i \in 1..k : inflight_tasks'[i] = inflight_tasks[i]
      /\ inflight_tasks'[k + 1] = t
  <2>1. inflight_tasks \in Seq(InflightTask) /\ k \in Nat
    BY StateTypes, StateNumbers DEF PartInv
  <2>2. inflight_tasks' = Append(inflight_tasks, t)
    BY <1>3
  <2> QED BY <2>1, <2>2, AppendElements
<1>7. ASSUME NEW i \in 1..(k + 1)
      PROVE  (MidStep(inflight_tasks[i]) \/ LastStep(inflight_tasks[i]))'
  <2>1. CASE i = k + 1
    BY <1>5, <1>6, <2>1 DEF MidStep, LastStep
  <2>2. CASE i # k + 1
    <3>1. i \in 1..k
      BY <1>6, <2>2
    <3>2. MidStep(inflight_tasks[i]) \/ LastStep(inflight_tasks[i])
      BY <3>1 DEF Prompting
    <3> QED BY <1>1, <1>6, <3>1, <3>2 DEF MidStep, LastStep
  <2> QED BY <2>1, <2>2
<1>8. remaining_workload.prefill_start_offset = end
  BY <1>3 DEF PartInv, ChunksTile
<1>9. NextStart' = end /\ fwd' = end
  BY <1>1, <1>3, <1>8, AfterLaunch DEF NextStart, fwd
<1>10. PromptLaunched' => LastStep(inflight_tasks[Len(inflight_tasks)])'
  <2> SUFFICES ASSUME PromptLaunched'
               PROVE  LastStep(inflight_tasks[Len(inflight_tasks)])'
    OBVIOUS
  <2>1. remaining_workload.prefill_token_num = 0
    BY <1>1 DEF PromptLaunched
  <2>2. ChunkEnd(remaining_workload) = Len(prefilling_tokens)
    BY StateTypes DEF PartInv
  <2>3. end = Len(prefilling_tokens)
    BY <1>3, <1>8, <2>1, <2>2 DEF ChunkEnd
  <2> QED BY <1>5, <1>6, <2>3 DEF LastStep
<1>11. ForwardsText(fwd)'
  <2> SUFFICES ASSUME NEW i \in 1..end PROVE forwarding_tokens'[i] = i
    BY <1>9 DEF ForwardsText
  <2>1. i \in 1..Len(output_tokens)
    <3>1. Len(output_tokens) \in Nat
      BY StateNumbers DEF PartInv
    <3>2. end \in Nat /\ end <= Len(output_tokens)
      BY <1>2, <1>3
    <3> HIDE DEF end
    <3> QED BY <3>1, <3>2
  <2>2. prefilling_tokens[i] = i
    <3>1. output_tokens = Upto(Len(output_tokens)) /\ Len(output_tokens) \in Nat
      BY StateNumbers DEF OutputInv, OutputIsText, PartInv
    <3> QED BY <1>2, <2>1, <3>1, UptoElements
  <2>3. CASE i <= w.prefill_start_offset
             /\ Len(forwarding_tokens) = w.prefill_start_offset
    <3>1. w.prefill_start_offset \in Nat
      BY StateTypes, WorkloadFields DEF PartInv
    <3>2. i \in 1..fwd
      BY <1>3, <2>3, <3>1 DEF fwd
    <3>3. forwarding_tokens[i] = i
      BY <3>2 DEF Prompting, ForwardsText
    <3> QED BY <1>3, <2>3, <3>3
  <2>4. CASE ~(i <= w.prefill_start_offset
               /\ Len(forwarding_tokens) = w.prefill_start_offset)
    BY <1>3, <2>2, <2>4
  <2> QED BY <2>3, <2>4
<1> QED BY <1>1, <1>3, <1>6, <1>7, <1>9, <1>10, <1>11 DEF Prompting

\* What a decode launch starts from: the prompt is launched, and the planned
\* step forwards a main token and a bounded number of drafts.
LEMMA DecodeLaunch ==
  ASSUME PartInv, WorkInv, LaunchPlanningTask,
         planning_task.workload.prefill_token_num = 0
  PROVE  /\ OneDecode(planning_task.workload) /\ PromptLaunched
         /\ PromptLaunched' /\ planning_task.workload.draft_token_num \in Nat
<1>1. HasPlanningTask /\ ~IsChunk(planning_task.workload)
  BY DEF LaunchPlanningTask, IsChunk
<1>2. OneDecode(planning_task.workload)
  BY <1>1 DEF WorkInv
<1>3. PromptLaunched
  BY <1>1 DEF PartInv, LayoutInv, DecodePhase, PromptLaunched
<1>4. PromptLaunched'
  BY <1>3, AfterLaunch DEF PromptLaunched
<1> QED BY <1>2, <1>3, <1>4, StateTypes, WorkloadFields DEF PartInv

\* On the fast path: behind the last chunk, or behind a decode step.
LEMMA ShapeReserve ==
  ASSUME PartInv, WorkInv, OutputInv, Prompting \/ FirstAhead \/ OneStep
         \/ TwoSteps \/ Drained, LaunchPlanningTask,
         planning_task.workload.prefill_token_num = 0,
         ReserveBuildAheadPlaceholderBlock
  PROVE  FirstAhead' \/ TwoSteps'
<1> DEFINE w == planning_task.workload
           k == Len(inflight_tasks)
           e == w.draft_token_num
<1>1. /\ HasInflightCapacity /\ ~is_stopped'
      /\ UNCHANGED <<output_tokens, prefilling_tokens, generated_tokens,
                     infer_stage, remaining_workload, exec_good>>
  BY LaunchKeeps
<1>2. /\ OneDecode(w) /\ PromptLaunched /\ PromptLaunched' /\ e \in Nat
  BY DecodeLaunch
<1>3. PICK t \in InflightTask :
         /\ FastPath /\ HasInflightTask /\ generated_tokens = <<>>
         /\ inflight_tasks' = Append(inflight_tasks, t)
         /\ t.workload.prefill_token_num = 0
         /\ t.workload.generated_token_num = 1
         /\ t.workload.draft_token_num = e
         /\ t.kind = "decode" /\ t.placeholder
         /\ t.sampling_token_num = 1 + e
         /\ t.len = fwd + 1 + e /\ t.kv = fwd
         /\ Len(forwarding_tokens') = fwd + 1 + e
         /\ \A i \in 1..fwd : forwarding_tokens'[i] = forwarding_tokens[i]
         /\ \A i \in (fwd + 1)..(fwd + 1 + e) :
              forwarding_tokens'[i] = kFastPathPlaceholderTokenId
         /\ kv_cached_token_num' = fwd
         /\ pending_placeholders' = Append(pending_placeholders, BlockOf(t, fwd))
  <2>1. NewStep \in InflightTask
    BY <1>1, ReserveEffect
  <2> WITNESS NewStep \in InflightTask
  <2> HIDE DEF w
  <2> QED BY <1>1, ReserveEffect DEF w
<1>4. DecodeStep(t)'
  <2>1. t.placeholder = FastPath
    BY <1>3, InferRequestAssumption DEF InflightTask
  <2> QED BY <1>2, <1>3, <2>1 DEF DecodeStep, OneDecode
<1>5. k = 1
  <2>1. k \in Nat /\ k < 2
    BY <1>1, <1>3, StateNumbers
       DEF HasInflightCapacity, max_depth, kMaxInflightDepth, PartInv
  <2>2. k # 0
    BY <1>3, StateTypes, EmptySeq DEF HasInflightTask, PartInv
  <2> HIDE DEF k
  <2> QED BY <2>1, <2>2
<1>6. /\ Len(inflight_tasks') = 2 /\ inflight_tasks'[1] = inflight_tasks[1]
      /\ inflight_tasks'[2] = t
  <2>1. inflight_tasks \in Seq(InflightTask) /\ inflight_tasks' = Append(inflight_tasks, t)
    BY <1>3, StateTypes DEF PartInv
  <2>2. /\ Len(inflight_tasks') = k + 1 /\ inflight_tasks'[k + 1] = t
        /\ \A i \in 1..k : inflight_tasks'[i] = inflight_tasks[i]
    BY <2>1, AppendElements
  <2>3. 1 \in 1..k /\ k + 1 = 2
    BY <1>5
  <2> QED BY <2>2, <2>3
<1>7. fwd \in Nat /\ out \in Nat /\ fwd' = fwd + 1 + e /\ out' = out
  BY <1>1, <1>3, StateNumbers DEF PartInv, fwd, out
<1>8. \A i \in (fwd + 1)..fwd' :
         forwarding_tokens'[i] = kFastPathPlaceholderTokenId
  BY <1>3, <1>7
<1>9. CASE Prompting
  <2>1. LastStep(inflight_tasks[1])
    BY <1>2, <1>5, <1>9 DEF Prompting
  <2>2. fwd = out /\ prefilling_tokens = output_tokens /\ ForwardsText(fwd)
        /\ pending_placeholders = <<>> /\ infer_stage = "context" /\ ~is_stopped
    BY <1>2, <1>3, <1>9, PromptEnd DEF Prompting, HasInflightTask, PartInv, out
  <2>3. LastStep(inflight_tasks[1])'
    BY <1>1, <1>6, <2>1 DEF LastStep
  <2>4. DecodeStep(inflight_tasks[2])'
    BY <1>4, <1>6 DEF DecodeStep
  <2>5. pending_placeholders' = <<BlockOf(t, out)>>
    BY <1>3, <2>2
  <2>6. ForwardsText(out)' /\ IsEmptyFrom(out)'
    BY <1>3, <1>7, <1>8, <2>2 DEF ForwardsText, IsEmptyFrom
  <2>7. FirstAhead'
    BY <1>1, <1>2, <1>3, <1>6, <1>7, <2>2, <2>3, <2>4, <2>5, <2>6
       DEF FirstAhead, BlockOf
  <2> QED BY <2>7
<1>10. CASE OneStep
  <2> DEFINE u == inflight_tasks[1]
             d == u.workload.draft_token_num
  <2>1. DecodeStep(u) /\ fwd = out + d /\ IsTextAndDrafts(fwd)
        /\ pending_placeholders = <<BlockOf(u, out - 1)>> /\ infer_stage = "decode"
    BY <1>3, <1>10 DEF OneStep
  <2>2. DecodeStep(inflight_tasks[1])' /\ DecodeStep(inflight_tasks[2])'
    BY <1>4, <1>6, <2>1 DEF DecodeStep
  <2>3. pending_placeholders' = <<BlockOf(u, out - 1), BlockOf(t, fwd)>>
    <3>1. pending_placeholders' = Append(<<BlockOf(u, out - 1)>>, BlockOf(t, fwd))
      BY <1>3, <2>1
    <3> QED BY <3>1, AppendToOne
  <2>4. /\ \A i \in 1..fwd : forwarding_tokens'[i]
                               = IF i <= out + exec_good THEN i ELSE Wrong
        /\ fwd = (out + d)' /\ inflight_tasks'[1] = u
    BY <1>1, <1>3, <1>6, <1>7, <2>1 DEF IsTextAndDrafts
  <2>5. IsTextAndDrafts(out + d)' /\ IsEmptyFrom(out + d)'
    BY <1>1, <1>7, <1>8, <2>4 DEF IsTextAndDrafts, IsEmptyFrom
  <2>6. TwoSteps'
    BY <1>1, <1>2, <1>3, <1>6, <1>7, <2>1, <2>2, <2>3, <2>4, <2>5
       DEF TwoSteps, BlockOf
  <2> QED BY <2>6
<1>11. CASE FirstAhead \/ TwoSteps
  BY <1>5, <1>11 DEF FirstAhead, TwoSteps
<1>12. CASE Drained
  BY <1>3, <1>12 DEF Drained, HasInflightTask
<1> QED BY <1>9, <1>10, <1>11, <1>12

\* On the slow path: what the last retirement left, behind nothing.
LEMMA ShapeAppend ==
  ASSUME PartInv, WorkInv, OutputInv, Prompting \/ FirstAhead \/ OneStep
         \/ TwoSteps \/ Drained, LaunchPlanningTask,
         planning_task.workload.prefill_token_num = 0,
         AppendDecodeTokensWithoutPlaceholder
  PROVE  OneStep'
<1> DEFINE w == planning_task.workload
           k == Len(inflight_tasks)
           gen == Len(generated_tokens)
           n == Len(draft_tokens')
<1>1. /\ HasInflightCapacity /\ ~is_stopped
      /\ UNCHANGED <<output_tokens, prefilling_tokens, generated_tokens,
                     infer_stage, remaining_workload, exec_good>>
  BY LaunchKeeps
<1>2. /\ OneDecode(w) /\ PromptLaunched /\ PromptLaunched'
      /\ w.draft_token_num \in Nat
  BY DecodeLaunch
<1>3. ~(FastPath /\ HasInflightTask /\ generated_tokens = <<>>)
  BY DEF AppendDecodeTokensWithoutPlaceholder
<1>4. k \in Nat /\ (~FastPath => k = 0) /\ k < 2
  BY <1>1, StateNumbers
     DEF HasInflightCapacity, max_depth, kMaxInflightDepth, PartInv
<1>5. Drained
  <2>1. ~Prompting
    <3> SUFFICES ASSUME Prompting PROVE FALSE
      OBVIOUS
    <3>1. inflight_tasks # <<>> /\ generated_tokens = <<>>
      BY <1>2 DEF Prompting
    <3>2. k # 0
      BY <3>1, StateTypes, EmptySeq DEF PartInv
    <3> QED BY <1>3, <1>4, <3>1, <3>2 DEF HasInflightTask
  <2>2. ~FirstAhead /\ ~TwoSteps
    BY <1>4 DEF FirstAhead, TwoSteps
  <2>3. ~OneStep
    <3> SUFFICES ASSUME OneStep PROVE FALSE
      OBVIOUS
    <3>1. k = 1 /\ (FastPath => generated_tokens = <<>>)
      BY DEF OneStep
    <3>2. HasInflightTask
      BY <3>1, EmptySeq DEF HasInflightTask
    <3> QED BY <1>3, <1>4, <3>1, <3>2
  <2> QED BY <2>1, <2>2, <2>3
<1>6. /\ ~FastPath /\ fwd = out - 1 /\ ForwardsText(fwd)
      /\ inflight_tasks = <<>> /\ pending_placeholders = <<>>
      /\ generated_tokens = <<out>> /\ draft_tokens = Drafts(out, exec_good)
      /\ infer_stage = "decode"
  BY <1>1, <1>5 DEF Drained
<1>7. gen = 1 /\ generated_tokens[1] = out
  BY <1>6
<1>8. /\ out \in Nat /\ out >= 1 /\ exec_good \in Nat /\ MtpStepNum \in Nat
      /\ fwd \in Nat /\ (out - 1) + 1 = out
  BY StateNumbers DEF PartInv, OutputInv, out, fwd
<1>9. Len(draft_tokens) = MtpStepNum
  BY <1>6, <1>8, DraftElements
<1>10. PICK t \in InflightTask :
         /\ n \in Nat
         /\ n = Min2(w.generated_token_num + w.draft_token_num - gen,
                     Len(draft_tokens))
         /\ inflight_tasks' = Append(inflight_tasks, t)
         /\ t.workload.prefill_token_num = 0
         /\ t.workload.generated_token_num = gen
         /\ t.workload.draft_token_num = n
         /\ t.kind = "decode" /\ ~t.placeholder
         /\ t.sampling_token_num = 1 + n
         /\ t.len = fwd + gen + n /\ t.kv = fwd
         /\ Len(forwarding_tokens') = fwd + gen + n
         /\ \A i \in 1..fwd : forwarding_tokens'[i] = forwarding_tokens[i]
         /\ \A i \in 1..gen : forwarding_tokens'[fwd + i] = generated_tokens[i]
         /\ \A i \in 1..n : forwarding_tokens'[(fwd + gen) + i] = draft_tokens[i]
         /\ forwarding_tokens_draft_num' = n
         /\ UNCHANGED pending_placeholders
  <2>1. NewStep \in InflightTask
    BY <1>1, AppendEffect
  <2> WITNESS NewStep \in InflightTask
  <2> HIDE DEF w, gen, n
  <2> QED BY <1>1, AppendEffect DEF w, gen, n
<1> HIDE DEF n, gen
<1>11. n <= MtpStepNum
  <2>1. w.generated_token_num + w.draft_token_num - gen = w.draft_token_num
        /\ w.draft_token_num <= MtpStepNum
    BY <1>2, <1>7 DEF OneDecode
  <2> QED BY <1>2, <1>8, <1>9, <1>10, <2>1 DEF Min2
<1>12. /\ Len(inflight_tasks') = 1 /\ inflight_tasks'[1] = t
  BY <1>6, <1>10
<1>13. DecodeStep(t)'
  <2>1. t.placeholder = FastPath
    BY <1>6, <1>10, InferRequestAssumption DEF InflightTask
  <2> QED BY <1>7, <1>10, <1>11, <2>1 DEF DecodeStep, OneDecode
<1>14. /\ fwd' = out + n /\ out' = out
       /\ \A i \in 1..(out - 1) : forwarding_tokens'[i] = i
       /\ forwarding_tokens'[out] = out
       /\ \A i \in 1..n : forwarding_tokens'[out + i] = draft_tokens[i]
  <2>1. fwd' = Len(forwarding_tokens') /\ out' = out
    BY <1>1 DEF fwd, out
  <2>2. fwd + gen = out /\ fwd + gen + n = out + n /\ fwd + 1 = out /\ 1 \in 1..gen
    BY <1>6, <1>7, <1>8, <1>10
  <2>3. \A i \in 1..fwd : forwarding_tokens[i] = i
    BY <1>6 DEF ForwardsText
  <2> QED BY <1>6, <1>7, <1>10, <2>1, <2>2, <2>3
<1>15. \A i \in 1..(out + n) :
          forwarding_tokens'[i] = IF i <= out + exec_good THEN i ELSE Wrong
  <2>1. EndsWithDrafts(forwarding_tokens', out, n, exec_good)
    BY <1>6, <1>14 DEF EndsWithDrafts
  <2>2. TextThenWrong(forwarding_tokens', out + n, out + exec_good)
    BY <1>8, <1>10, <1>11, <2>1, FilledElements
  <2> QED BY <2>2 DEF TextThenWrong
<1>16. IsTextAndDrafts(fwd)'
  BY <1>1, <1>14, <1>15 DEF IsTextAndDrafts
<1> QED
  BY <1>1, <1>2, <1>6, <1>10, <1>12, <1>13, <1>14, <1>16 DEF OneStep, DecodeStep

\* What a launch makes of each shape.
LEMMA ShapeLaunch ==
  ASSUME PartInv, WorkInv, OutputInv, ShapeInv, LaunchPlanningTask
  PROVE  ShapeInv'
<1>1. /\ ~is_eos_generated /\ ~is_eos_generated'
      /\ Prompting \/ FirstAhead \/ OneStep \/ TwoSteps \/ Drained
  BY LaunchKeeps DEF ShapeInv
<1>2. CASE LaunchPrefill
  <2>1. ~PromptLaunched
    BY <1>2 DEF LaunchPrefill, PromptLaunched, IsChunk
  <2>2. Prompting
    BY <1>1, <2>1 DEF FirstAhead, OneStep, TwoSteps, Drained
  <2> QED BY <1>1, <1>2, <2>2, ShapeLaunchPrefill DEF ShapeInv
<1>3. CASE planning_task.workload.prefill_token_num = 0
           /\ ReserveBuildAheadPlaceholderBlock
  BY <1>1, <1>3, ShapeReserve DEF ShapeInv
<1>4. CASE planning_task.workload.prefill_token_num = 0
           /\ AppendDecodeTokensWithoutPlaceholder
  BY <1>1, <1>4, ShapeAppend DEF ShapeInv
<1> QED BY <1>2, <1>3, <1>4 DEF LaunchPlanningTask

-----------------------------------------------------------------------------
(***************************************************************************)
(* Planning and block pressure.                                            *)
(***************************************************************************)

\* Planning changes no token and no step.  The shape stays, whichever it is,
\* when what is left of the prompt stays.
LEMMA ShapePlanned ==
  ASSUME ShapeInv, UNCHANGED <<pipeline, is_stopped, executor>>,
         UNCHANGED <<NextStart, PromptLaunched>>
  PROVE  ShapeInv'
<1>1. Prompting => Prompting'
  BY DEF Prompting, MidStep, LastStep, ForwardsText, fwd, pipeline
<1>2. FirstAhead => FirstAhead'
  BY DEF FirstAhead, LastStep, DecodeStep, ForwardsText, IsEmptyFrom, out, fwd, pipeline
<1>3. OneStep => OneStep'
  BY DEF OneStep, DecodeStep, IsTextAndDrafts, out, fwd, pipeline, executor
<1>4. TwoSteps => TwoSteps'
  BY DEF TwoSteps, DecodeStep, IsTextAndDrafts, IsEmptyFrom, out, fwd, pipeline,
         executor
<1>5. Drained => Drained'
  BY DEF Drained, ForwardsText, out, fwd, pipeline, executor
<1>6. Ended => Ended'
  BY DEF Ended, DecodeStep, fwd, pipeline
<1>7. is_eos_generated' = is_eos_generated
  BY DEF pipeline
<1> QED BY <1>1, <1>2, <1>3, <1>4, <1>5, <1>6, <1>7 DEF ShapeInv

\* Planning leaves the text alone.
LEMMA OutputPlanned ==
  ASSUME OutputInv, UNCHANGED <<pipeline, is_stopped, executor>>
  PROVE  OutputInv'
BY DEF OutputInv, OutputIsText, out, pipeline, executor

\* The whole prompt is left to launch, less what the prefix cache holds.
LEMMA TextPrefixCacheHit ==
  ASSUME PartInv, WorkInv, OutputInv, ShapeInv,
         NEW n \in 1..Len(prefilling_tokens), PrefixCacheHit(n)
  PROVE  OutputInv' /\ WorkInv' /\ ShapeInv'
<1> DEFINE len == Len(prefilling_tokens)
<1>1. /\ ~is_eos_generated /\ ~HasInflightTask /\ forwarding_tokens = <<>>
      /\ remaining_workload = PrefillWork(len, 0) /\ n < len
      /\ remaining_workload' = PrefillWork(len - n, n)
      /\ planning_workload' = remaining_workload'
      /\ UNCHANGED <<pipeline, planning_task, is_stopped, executor>>
  BY DEF PrefixCacheHit, CanPlan
<1>2. len \in Nat /\ len - n > 0 /\ len > 0
  <2>1. len \in Nat /\ n \in Nat
    BY StateNumbers DEF PartInv
  <2> HIDE DEF len
  <2> QED BY <1>1, <2>1
<1> HIDE DEF len
<1>3. ~PromptLaunched /\ ~PromptLaunched' /\ IsChunk(planning_workload')
  BY <1>1, <1>2 DEF PromptLaunched, PrefillWork, IsChunk
<1>4. Prompting
  BY <1>1, <1>3 DEF ShapeInv, FirstAhead, OneStep, TwoSteps, Drained
<1>5. inflight_tasks' = <<>> /\ forwarding_tokens' = <<>> /\ ~is_eos_generated'
  BY <1>1 DEF HasInflightTask, pipeline
<1>6. Prompting'
  BY <1>1, <1>3, <1>4, <1>5
     DEF Prompting, MidStep, LastStep, ForwardsText, fwd, pipeline
<1>7. WorkInv'
  BY <1>1, <1>3 DEF WorkInv, HasPlanningTask
<1> QED BY <1>1, <1>5, <1>6, <1>7, OutputPlanned DEF ShapeInv

\* An estimated result stands for one decode step and changes no token.
LEMMA TextEstimation ==
  ASSUME PartInv, WorkInv, OutputInv, ShapeInv,
         NEW n \in 0..MtpStepNum, SetInflightTaskGenResultEstimation(n)
  PROVE  OutputInv' /\ WorkInv' /\ ShapeInv'
<1>1. /\ planning_workload' = [planning_workload EXCEPT
                                 !.generated_token_num = 1, !.draft_token_num = n]
      /\ remaining_workload' = [remaining_workload EXCEPT
                                  !.generated_token_num = 1, !.draft_token_num = n]
      /\ UNCHANGED <<pipeline, planning_task, is_stopped, executor>>
  BY DEF SetInflightTaskGenResultEstimation
<1>2. UNCHANGED <<remaining_workload.prefill_token_num,
                  remaining_workload.prefill_start_offset>>
  BY <1>1, StateTypes DEF Workload, PartInv
<1>3. UNCHANGED <<NextStart, PromptLaunched>>
  BY <1>1, <1>2 DEF NextStart, PromptLaunched
<1>4. OneDecode(planning_workload')
  BY <1>1, StateTypes, StateNumbers DEF OneDecode, Workload, PartInv
<1>5. WorkInv'
  BY <1>1, <1>4 DEF WorkInv, HasPlanningTask
<1> QED BY <1>1, <1>3, <1>5, OutputPlanned, ShapePlanned

\* A planned chunk is where the rest of the prompt started.
LEMMA TextPlan ==
  ASSUME PartInv, WorkInv, OutputInv, ShapeInv,
         \/ \E n \in 1..Len(prefilling_tokens) : PlanPrefill(n)
         \/ PlanDecode
  PROVE  OutputInv' /\ WorkInv' /\ ShapeInv'
<1>1. PICK w \in Workload :
        /\ SetPlanningTask(w)
        /\ \/ /\ IsChunk(w) /\ remaining_workload.prefill_token_num > 0
              /\ w.prefill_start_offset = remaining_workload.prefill_start_offset
           \/ /\ ~IsChunk(w) /\ remaining_workload.prefill_token_num = 0
              /\ w.prefill_token_num = 0
              /\ w = planning_workload /\ ~IsEmpty(w)
  <2>1. ASSUME NEW n \in 1..Len(prefilling_tokens), PlanPrefill(n)
        PROVE  \E w \in Workload :
                 /\ SetPlanningTask(w) /\ IsChunk(w)
                 /\ remaining_workload.prefill_token_num > 0
                 /\ w.prefill_start_offset = remaining_workload.prefill_start_offset
    <3> DEFINE w == PrefillWork(n, remaining_workload.prefill_start_offset)
    <3>1. n \in Nat /\ n > 0 /\ remaining_workload.prefill_start_offset \in Nat
      BY StateTypes, WorkloadFields, StateNumbers DEF PartInv
    <3>2. w \in Workload
      BY <3>1, WorkTypes
    <3>3. IsChunk(w) /\ w.prefill_start_offset
                          = remaining_workload.prefill_start_offset
      BY <3>1 DEF IsChunk, PrefillWork
    <3>4. SetPlanningTask(w) /\ remaining_workload.prefill_token_num > 0
      BY <2>1 DEF PlanPrefill
    <3> HIDE DEF w
    <3> QED BY <3>2, <3>3, <3>4
  <2>2. ASSUME PlanDecode
        PROVE  /\ planning_workload \in Workload /\ SetPlanningTask(planning_workload)
               /\ ~IsChunk(planning_workload) /\ ~IsEmpty(planning_workload)
               /\ planning_workload.prefill_token_num = 0
               /\ remaining_workload.prefill_token_num = 0
    <3>1. planning_workload \in Workload
      BY StateTypes DEF PartInv
    <3>2. /\ SetPlanningTask(planning_workload) /\ ~IsEmpty(planning_workload)
          /\ remaining_workload.prefill_token_num = 0
      BY <2>2 DEF PlanDecode
    <3>3. planning_workload.prefill_token_num = 0
      BY <3>1, <3>2, WorkloadFields DEF SetPlanningTask
    <3> QED BY <3>1, <3>2, <3>3 DEF IsChunk
  <2> QED BY <2>1, <2>2
<1>2. /\ planning_task'.workload = w /\ ~IsChunk(planning_task.workload)
      /\ remaining_workload'.prefill_start_offset
           = remaining_workload.prefill_start_offset + w.prefill_token_num
      /\ remaining_workload'.prefill_token_num
           = remaining_workload.prefill_token_num - w.prefill_token_num
      /\ planning_workload' = NoWork
  BY <1>1, PlanSplits DEF PartInv
<1>3. /\ ~is_eos_generated /\ UNCHANGED <<pipeline, is_stopped, executor>>
  BY <1>1 DEF SetPlanningTask, CanPlan
<1>4. /\ remaining_workload.prefill_token_num \in Nat
      /\ remaining_workload.prefill_start_offset \in Nat
  BY StateTypes, WorkloadFields DEF PartInv
<1>5. UNCHANGED <<NextStart, PromptLaunched>>
  <2>1. CASE IsChunk(w) /\ remaining_workload.prefill_token_num > 0
             /\ w.prefill_start_offset = remaining_workload.prefill_start_offset
    <3>1. ~PromptLaunched /\ ~PromptLaunched' /\ IsChunk(planning_task'.workload)
      BY <1>2, <2>1 DEF PromptLaunched
    <3>2. NextStart' = NextStart
      BY <1>2, <2>1, <3>1 DEF NextStart
    <3> QED BY <3>1, <3>2 DEF PromptLaunched
  <2>2. CASE ~IsChunk(w) /\ w.prefill_token_num = 0
             /\ remaining_workload.prefill_token_num = 0
    <3>1. /\ remaining_workload'.prefill_start_offset
               = remaining_workload.prefill_start_offset
          /\ remaining_workload'.prefill_token_num = 0
      BY <1>2, <1>4, <2>2
    <3>2. PromptLaunched /\ PromptLaunched'
      BY <1>2, <2>2, <3>1 DEF PromptLaunched
    <3>3. NextStart' = NextStart
      BY <1>2, <2>2, <3>1 DEF NextStart
    <3> QED BY <3>2, <3>3 DEF PromptLaunched
  <2> QED BY <1>1, <2>1, <2>2
<1>6. WorkInv'
  <2>1. ~IsChunk(w) => OneDecode(w)
    BY <1>1, <1>3 DEF WorkInv
  <2>2. IsEmpty(planning_workload')
    BY <1>2 DEF NoWork, DecodeWork, IsEmpty, GetTokenNum
  <2> QED BY <1>2, <2>1, <2>2 DEF WorkInv, OneDecode
<1> QED BY <1>3, <1>5, <1>6, OutputPlanned, ShapePlanned

\* The strategy stops a request only when all its steps in flight decode.
LEMMA TextStop ==
  ASSUME PartInv, WorkInv, OutputInv, ShapeInv, Stop
  PROVE  OutputInv' /\ WorkInv' /\ ShapeInv'
<1>1. /\ ~is_eos_generated /\ HasInflightTask /\ is_stopped' = TRUE
      /\ \A i \in DOMAIN inflight_tasks : inflight_tasks[i].kind = "decode"
      /\ UNCHANGED <<pipeline, planning_task, planning_workload,
                     remaining_workload, executor>>
  BY DEF Stop
<1>2. inflight_tasks[1].kind = "decode" /\ Len(inflight_tasks) \in Nat
  <2>1. /\ Len(inflight_tasks) \in Nat /\ Len(inflight_tasks) >= 1
        /\ DOMAIN inflight_tasks = 1..Len(inflight_tasks)
    BY <1>1, StateTypes, TailElements, LenProperties DEF PartInv, HasInflightTask
  <2> QED BY <1>1, <2>1
<1>3. OneStep \/ TwoSteps
  <2>1. ~Prompting
    <3> SUFFICES ASSUME Prompting PROVE FALSE
      OBVIOUS
    <3>1. 1 \in 1..Len(inflight_tasks)
      BY <1>1, StateTypes, TailElements DEF PartInv, HasInflightTask
    <3> QED BY <1>2, <3>1 DEF Prompting, MidStep, LastStep
  <2>2. ~FirstAhead /\ ~Drained
    BY <1>1, <1>2 DEF FirstAhead, LastStep, Drained, HasInflightTask
  <2> QED BY <1>1, <2>1, <2>2 DEF ShapeInv
<1>4. (OneStep => OneStep') /\ (TwoSteps => TwoSteps') /\ ~is_eos_generated'
  <2>1. UNCHANGED PromptLaunched
    BY <1>1 DEF PromptLaunched
  <2>2. OneStep => OneStep'
    BY <1>1, <2>1 DEF OneStep, DecodeStep, IsTextAndDrafts, out, fwd, pipeline,
                      executor
  <2>3. TwoSteps => TwoSteps'
    BY <1>1, <2>1 DEF TwoSteps, DecodeStep, IsTextAndDrafts, IsEmptyFrom, out, fwd,
                      pipeline, executor
  <2> QED BY <1>1, <2>2, <2>3 DEF pipeline
<1>5. OutputInv'
  BY <1>1 DEF OutputInv, OutputIsText, out, pipeline, executor
<1>6. WorkInv'
  BY <1>1 DEF WorkInv, HasPlanningTask, pipeline
<1> QED BY <1>3, <1>4, <1>5, <1>6 DEF ShapeInv

\* A recomputed request has its whole output as its prompt.
LEMMA TextRecompute ==
  ASSUME PartInv, WorkInv, OutputInv, ShapeInv, Recompute
  PROVE  OutputInv' /\ WorkInv' /\ ShapeInv'
<1>1. /\ prefilling_tokens' = output_tokens /\ output_tokens' = output_tokens
      /\ forwarding_tokens' = <<>> /\ generated_tokens' = <<>>
      /\ draft_tokens' = <<>> /\ forwarding_tokens_draft_num' = 0
      /\ infer_stage' = "context" /\ inflight_tasks' = <<>>
      /\ pending_placeholders' = <<>> /\ planning_task' = NoTask
      /\ planning_workload' = PrefillWork(out, 0)
      /\ remaining_workload' = PrefillWork(out, 0)
      /\ is_eos_generated' = FALSE /\ ~is_eos_generated /\ is_stopped' = FALSE
      /\ exec_len' = out /\ exec_good' = 0 /\ UNCHANGED eos
  BY DEF Recompute, ResetPrefillingTokens, out
<1>2. out \in Nat /\ out > 0 /\ MtpStepNum \in Nat
  BY StateNumbers DEF PartInv, OutputInv, out
<1>3. OutputInv'
  BY <1>1, <1>2 DEF OutputInv, OutputIsText, out
<1>4. IsChunk(planning_workload') /\ ~PromptLaunched'
  BY <1>1, <1>2 DEF IsChunk, PrefillWork, PromptLaunched
<1>5. ~HasPlanningTask'
  BY <1>1 DEF HasPlanningTask, IsEmpty, GetTokenNum, NoTask, NoWork, DecodeWork
<1>6. WorkInv'
  BY <1>4, <1>5 DEF WorkInv
<1>7. fwd' = 0 /\ Len(inflight_tasks') = 0
  BY <1>1, EmptySeq DEF fwd
<1>8. Prompting'
  <2>1. ForwardsText(fwd)'
    BY <1>7 DEF ForwardsText
  <2> QED BY <1>1, <1>4, <1>7, <2>1 DEF Prompting
<1> QED BY <1>1, <1>3, <1>6, <1>8 DEF ShapeInv

\* A request that is put back to decode is drained, on the slow path.
LEMMA TextRecover ==
  ASSUME PartInv, WorkInv, OutputInv, ShapeInv, AheadOfTime, Recover
  PROVE  OutputInv' /\ WorkInv' /\ ShapeInv'
<1>1. /\ ~is_eos_generated /\ is_stopped /\ ~HasInflightTask /\ ~FastPath
      /\ is_stopped' = FALSE /\ planning_task' = NoTask
      /\ UNCHANGED <<pipeline, planning_workload, remaining_workload,
                     eos, exec_len, exec_good>>
  BY DEF Recover, MayRecover, AheadOfTime
<1>2. Drained
  <2>1. ~Prompting
    BY <1>1 DEF Prompting
  <2>2. ~FirstAhead /\ ~OneStep /\ ~TwoSteps
    <3>1. Len(inflight_tasks) = 0
      BY <1>1, EmptySeq DEF HasInflightTask
    <3> QED BY <3>1 DEF FirstAhead, OneStep, TwoSteps
  <2> QED BY <1>1, <2>1, <2>2 DEF ShapeInv
<1>3. PromptLaunched' /\ ~HasPlanningTask'
  BY <1>1, <1>2 DEF Drained, PromptLaunched, HasPlanningTask, IsEmpty, GetTokenNum,
                    NoTask, NoWork, DecodeWork, IsChunk
<1>4. Drained'
  BY <1>1, <1>2, <1>3 DEF Drained, ForwardsText, out, fwd, pipeline
<1>5. ~is_eos_generated'
  BY <1>1 DEF pipeline
<1>6. OutputInv'
  BY <1>1, <1>5 DEF OutputInv, OutputIsText, out, pipeline
<1>7. WorkInv'
  BY <1>1, <1>3 DEF WorkInv, pipeline
<1> QED BY <1>4, <1>5, <1>6, <1>7 DEF ShapeInv

-----------------------------------------------------------------------------
(***************************************************************************)
(* The invariant.                                                          *)
(***************************************************************************)

\* The seven ways a step comes back, by the shape it comes back to.
LEMMA TextFinish ==
  ASSUME PartInv, WorkInv, OutputInv, ShapeInv, AheadOfTime, LaunchedAhead,
         NEW good \in 0..MtpStepNum, FinishStep(good)
  PROVE  OutputInv' /\ WorkInv' /\ ShapeInv'
<1>1. HasInflightTask
  BY DEF FinishStep
<1>2. CASE is_eos_generated
  BY <1>2, FinishEnded
<1>3. CASE ~is_eos_generated /\ Prompting
  <2>1. 1 \in 1..Len(inflight_tasks)
    BY <1>1, StateTypes, TailElements DEF PartInv, HasInflightTask
  <2>2. MidStep(inflight_tasks[1]) \/ LastStep(inflight_tasks[1])
    BY <1>3, <2>1 DEF Prompting
  <2> QED BY <1>3, <2>2, FinishMidChunk, FinishLastChunk
<1>4. CASE ~is_eos_generated /\ FirstAhead
  BY <1>4, FinishFirst
<1>5. CASE ~is_eos_generated /\ OneStep
  BY <1>5, FinishOneFast, FinishOneSlow
<1>6. CASE ~is_eos_generated /\ TwoSteps
  BY <1>6, FinishTwo
<1>7. ~Drained
  BY <1>1 DEF Drained, HasInflightTask
<1> QED BY <1>2, <1>3, <1>4, <1>5, <1>6, <1>7 DEF ShapeInv

\* A new request has its whole prompt to launch.
LEMMA TextInit == Init => TextInv
<1> SUFFICES ASSUME Init PROVE TextInv
  OBVIOUS
<1>1. PartInv
  BY PartInit
<1>2. /\ PromptLen \in Nat /\ PromptLen > 0 /\ MtpStepNum \in Nat
      /\ eos \in EosPositions /\ eos > PromptLen /\ eos \in Nat
  BY InferRequestAssumption DEF Init
<1>3. output_tokens = Upto(PromptLen) /\ out = PromptLen
  BY <1>2, UptoElements DEF Init, out
<1>4. OutputInv
  BY <1>2, <1>3 DEF Init, OutputInv, OutputIsText, out
<1>5. ~HasPlanningTask /\ IsChunk(planning_workload) /\ ~PromptLaunched
  BY <1>2 DEF Init, HasPlanningTask, IsEmpty, GetTokenNum, NoTask, NoWork,
              DecodeWork, PrefillWork, IsChunk, PromptLaunched
<1>6. WorkInv
  BY <1>5 DEF WorkInv
<1>7. fwd = 0 /\ Len(inflight_tasks) = 0
  BY EmptySeq DEF Init, fwd
<1>8. Prompting
  BY <1>5, <1>7 DEF Init, Prompting, ForwardsText
<1> QED BY <1>1, <1>4, <1>6, <1>8 DEF Init, TextInv, ShapeInv

\* One step per action.
LEMMA TextNext == AheadOfTime /\ TextInv /\ [Next]_vars => TextInv'
<1> SUFFICES ASSUME AheadOfTime, TextInv, [Next]_vars PROVE TextInv'
  OBVIOUS
<1>1. PartInv' /\ PartInv /\ WorkInv /\ OutputInv /\ ShapeInv
  BY PartNext DEF TextInv
<1> DEFINE Rest == OutputInv' /\ WorkInv' /\ ShapeInv'
<1>2. ASSUME NEW n \in 1..Len(prefilling_tokens), PrefixCacheHit(n) PROVE Rest
  BY <1>1, <1>2, TextPrefixCacheHit
<1>3. ASSUME NEW n \in 0..MtpStepNum, SetInflightTaskGenResultEstimation(n)
      PROVE  Rest
  BY <1>1, <1>3, TextEstimation
<1>4. ASSUME \/ \E n \in 1..Len(prefilling_tokens) : PlanPrefill(n)
             \/ PlanDecode
      PROVE  Rest
  BY <1>1, <1>4, TextPlan
<1>5. ASSUME LaunchPlanningTask PROVE Rest
  BY <1>1, <1>5, LaunchKeeps, ShapeLaunch
<1>6. ASSUME LaunchedAhead, NEW good \in 0..MtpStepNum, FinishStep(good) PROVE Rest
  BY <1>1, <1>6, TextFinish
<1>7. ASSUME Stop PROVE Rest
  BY <1>1, <1>7, TextStop
<1>8. ASSUME Recompute PROVE Rest
  BY <1>1, <1>8, TextRecompute
<1>9. ASSUME Recover PROVE Rest
  BY <1>1, <1>9, TextRecover
<1>10. ASSUME Idle \/ UNCHANGED vars PROVE Rest
  <2>1. UNCHANGED <<pipeline, planning_task, planning_workload,
                    remaining_workload, is_stopped, executor>>
    BY <1>10 DEF Idle, vars, request
  <2>2. WorkInv'
    BY <1>1, <2>1 DEF WorkInv, HasPlanningTask, pipeline
  <2>3. UNCHANGED <<NextStart, PromptLaunched>>
    BY <2>1 DEF NextStart, PromptLaunched
  <2> QED BY <1>1, <2>1, <2>2, <2>3, OutputPlanned, ShapePlanned
<1> HIDE DEF Rest
<1>11. Rest
  BY <1>2, <1>3, <1>4, <1>5, <1>6, <1>7, <1>8, <1>9, <1>10 DEF Next
<1> QED BY <1>1, <1>11 DEF TextInv, Rest

\* Whatever the scheduler and the executor do, a request whose next step is
\* launched ahead is in one of the five shapes or has ended.
THEOREM TextCorrect == ASSUME AheadOfTime PROVE Spec => []TextInv
BY TextInit, TextNext, PTL DEF Spec

-----------------------------------------------------------------------------
(***************************************************************************)
(* What the shapes say.                                                    *)
(***************************************************************************)

\* No token is lost, repeated, reordered or invented on its way to the client,
\* and nothing follows the stop token: output_tokens after any mix of the five
\* ways UpdateAfterInflightTaskFinished retires a step.
THEOREM OutputIsTextCorrect == ASSUME AheadOfTime PROVE Spec => []OutputIsText
<1>1. TextInv => OutputIsText
  BY DEF TextInv, OutputInv
<1> QED BY <1>1, TextCorrect, PTL

\* The numbers of a state.
LEMMA TextNumbers ==
  ASSUME TextInv
  PROVE  /\ out \in Nat /\ out >= 1 /\ fwd \in Nat /\ exec_good \in Nat
         /\ Len(inflight_tasks) \in Nat /\ Len(output_tokens) = out
         /\ DOMAIN inflight_tasks = 1..Len(inflight_tasks)
         /\ Len(forwarding_tokens) = fwd
         /\ FastPath \in BOOLEAN
<1>1. LayoutInv
  BY DEF TextInv, PartInv
<1>2. DOMAIN inflight_tasks = 1..Len(inflight_tasks)
  BY <1>1, StateTypes, LenProperties
<1> QED BY <1>1, <1>2, StateNumbers DEF TextInv, OutputInv, out, fwd

\* The steps of a shape have their types.
LEMMA StepTyped ==
  ASSUME TextInv, NEW i \in 1..Len(inflight_tasks)
  PROVE  /\ inflight_tasks[i] \in InflightTask
         /\ inflight_tasks[i].workload.draft_token_num \in Nat
         /\ inflight_tasks[i].kv \in Nat
BY StateTypes, ElementOfSeq, StepFields DEF TextInv, PartInv

\* What the request will forward agrees with what it told the client, and a
\* drained request holds its whole text but the token it forwards next.
THEOREM ForwardingIsTextCorrect ==
  ASSUME AheadOfTime PROVE Spec => []ForwardingIsText
<1>1. ASSUME TextInv, ~is_eos_generated
      PROVE  /\ \A i \in 1..Settled : forwarding_tokens[i] = i
             /\ pending_placeholders # <<>>
                  /\ Settled > Head(pending_placeholders).pos
                  => Settled = Len(output_tokens)
             /\ infer_stage = "decode" /\ ~HasInflightTask
                  => /\ kv_cached_token_num = Len(forwarding_tokens)
                     /\ Len(forwarding_tokens) = Len(output_tokens) - 1
                     /\ ~is_stopped => generated_tokens = <<Last(output_tokens)>>
  <2>1. /\ out \in Nat /\ out >= 1 /\ fwd \in Nat /\ exec_good \in Nat
        /\ Len(output_tokens) = out /\ Len(forwarding_tokens) = fwd
        /\ FastPath \in BOOLEAN
    BY <1>1, TextNumbers
  <2>2. CASE Prompting
    <3>1. pending_placeholders = <<>> /\ forwarding_tokens_draft_num = 0
          /\ infer_stage = "context" /\ ForwardsText(fwd)
      BY <2>2 DEF Prompting
    <3>2. Settled = fwd
      BY <2>1, <3>1 DEF Settled
    <3> QED BY <3>1, <3>2 DEF ForwardsText
  <2>3. CASE FirstAhead
    <3> DEFINE d == inflight_tasks[2].workload.draft_token_num
               b == BlockOf(inflight_tasks[2], out)
    <3>1. /\ pending_placeholders = <<b>> /\ ForwardsText(out) /\ IsEmptyFrom(out)
          /\ fwd = out + 1 + d /\ infer_stage = "context"
          /\ Len(inflight_tasks) = 2
      BY <2>3 DEF FirstAhead
    <3>2. d \in Nat
      BY <1>1, <3>1, StepTyped
    <3>3. b.pos = out
      BY DEF BlockOf
    <3> HIDE DEF d, b
    <3>4. forwarding_tokens[out + 1] = kFastPathPlaceholderTokenId
      BY <2>1, <3>1, <3>2 DEF IsEmptyFrom
    <3>5. Settled = out /\ Head(pending_placeholders) = b
      BY <3>1, <3>3, <3>4 DEF Settled
    <3> QED BY <2>1, <3>1, <3>3, <3>5 DEF ForwardsText
  <2>4. CASE (OneStep \/ TwoSteps) /\ pending_placeholders # <<>>
    <3> DEFINE d == inflight_tasks[1].workload.draft_token_num
               b == BlockOf(inflight_tasks[1], out - 1)
    <3>1. /\ Head(pending_placeholders) = b /\ IsTextAndDrafts(out + d)
          /\ HasInflightTask /\ Len(inflight_tasks) \in {1, 2}
      BY <2>1, <2>4, EmptySeq DEF OneStep, TwoSteps, HasInflightTask
    <3>2. d \in Nat
      BY <1>1, <3>1, StepTyped
    <3>3. b.pos = out - 1 /\ (out - 1) + 1 = out
      BY <2>1 DEF BlockOf
    <3> HIDE DEF d, b
    <3>4. \A i \in 1..out : forwarding_tokens[i] = i
      <4>1. \A i \in 1..out : i \in 1..(out + d) /\ i <= out + exec_good
        BY <2>1, <3>2
      <4> QED BY <3>1, <4>1 DEF IsTextAndDrafts
    <3>5. forwarding_tokens[out] # kFastPathPlaceholderTokenId
      BY <2>1, <3>4 DEF kFastPathPlaceholderTokenId
    <3>6. Settled = out
      BY <2>4, <3>1, <3>3, <3>5 DEF Settled
    <3> QED BY <2>1, <3>1, <3>4, <3>6
  <2>5. CASE OneStep /\ pending_placeholders = <<>>
    <3> DEFINE d == inflight_tasks[1].workload.draft_token_num
    <3>1. /\ ~FastPath /\ fwd = out + d /\ IsTextAndDrafts(fwd)
          /\ forwarding_tokens_draft_num = d /\ Len(inflight_tasks) = 1
      BY <2>1, <2>5 DEF OneStep
    <3>2. d \in Nat /\ HasInflightTask
      <4>1. 1 \in 1..Len(inflight_tasks) /\ inflight_tasks # <<>>
        BY <3>1, EmptySeq
      <4> QED BY <1>1, <4>1, StepTyped DEF HasInflightTask
    <3> HIDE DEF d
    <3>3. Settled = out
      BY <2>1, <2>5, <3>1, <3>2 DEF Settled
    <3>4. \A i \in 1..out : i \in 1..fwd /\ i <= out + exec_good
      BY <2>1, <3>1, <3>2
    <3> QED BY <2>5, <3>1, <3>2, <3>3, <3>4 DEF IsTextAndDrafts
  <2>6. CASE Drained
    <3>1. /\ pending_placeholders = <<>> /\ ~HasInflightTask
          /\ fwd = out - 1 /\ ForwardsText(fwd) /\ kv_cached_token_num = fwd
          /\ ~is_stopped => generated_tokens = <<out>>
      BY <2>1, <2>6 DEF Drained, HasInflightTask
    <3>2. Settled = fwd
      BY <2>1, <3>1 DEF Settled
    <3>3. Last(output_tokens) = out
      <4>1. output_tokens = Upto(out)
        BY <1>1 DEF TextInv, OutputInv, OutputIsText, out
      <4> QED BY <2>1, <4>1, UptoElements DEF Last
    <3> QED BY <2>1, <3>1, <3>2, <3>3 DEF ForwardsText
  <2>7. TwoSteps => pending_placeholders # <<>>
    BY DEF TwoSteps
  <2> QED BY <1>1, <2>2, <2>3, <2>4, <2>5, <2>6, <2>7 DEF TextInv, ShapeInv
<1>2. TextInv => ForwardingIsText
  BY <1>1 DEF ForwardingIsText
<1> QED BY <1>2, TextCorrect, PTL

\* The deque of placeholder blocks and the in-flight queue never get out of
\* step, also behind the stop token: the blocks belong to the newest steps in
\* flight and lie behind each other up to the end of forwarding_tokens
\* (UpdateAfterInflightTaskFinished and ResetInflightTask pop one each).
THEOREM PlaceholderFifoCorrect ==
  ASSUME AheadOfTime PROVE Spec => []PlaceholderFifo
<1>1. ASSUME TextInv PROVE PlaceholderFifo
  <2>1. /\ out \in Nat /\ out >= 1 /\ fwd \in Nat
        /\ Len(inflight_tasks) \in Nat
        /\ Len(forwarding_tokens) = fwd /\ FastPath \in BOOLEAN
    BY <1>1, TextNumbers
  <2>2. CASE /\ pending_placeholders = <<>>
             /\ \A i \in 1..Len(inflight_tasks) : ~inflight_tasks[i].placeholder
    <3>1. Len(pending_placeholders) = 0
      BY <2>2, EmptySeq
    <3> QED BY <2>1, <2>2, <3>1 DEF PlaceholderFifo
  <2>3. ASSUME NEW i \in {1, 2}, NEW pos \in Nat,
               Len(inflight_tasks) = i,
               pending_placeholders = <<BlockOf(inflight_tasks[i], pos)>>,
               fwd = pos + 1 + inflight_tasks[i].workload.draft_token_num,
               inflight_tasks[i].placeholder,
               i = 2 => ~inflight_tasks[1].placeholder
        PROVE  PlaceholderFifo
    <3>1. /\ Len(inflight_tasks) = i
          /\ pending_placeholders = <<BlockOf(inflight_tasks[i], pos)>>
          /\ fwd = pos + 1 + inflight_tasks[i].workload.draft_token_num
          /\ inflight_tasks[i].placeholder
          /\ i = 2 => ~inflight_tasks[1].placeholder
      BY <2>3
    <3>2. /\ Len(pending_placeholders) = 1
          /\ pending_placeholders[1].draft
               = inflight_tasks[i].workload.draft_token_num
          /\ BlockEnd(pending_placeholders[1]) = fwd
      BY <3>1 DEF BlockOf, BlockEnd
    <3>3. Len(inflight_tasks) - 1 = i - 1 /\ (i - 1) + 1 = i /\ i - 1 >= 0
      BY <3>1
    <3>4. \A j \in 1..i : inflight_tasks[j].placeholder <=> j > i - 1
      BY <3>1
    <3> QED BY <2>1, <3>1, <3>2, <3>3, <3>4 DEF PlaceholderFifo
  <2>4. CASE TwoSteps
    <3> DEFINE t == inflight_tasks[1]
               u == inflight_tasks[2]
               end == out + t.workload.draft_token_num
               b == BlockOf(t, out - 1)
               c == BlockOf(u, end)
    <3>1. /\ Len(inflight_tasks) = 2 /\ pending_placeholders = <<b, c>>
          /\ t.placeholder /\ u.placeholder
          /\ fwd = end + 1 + u.workload.draft_token_num
      BY <2>4 DEF TwoSteps, DecodeStep
    <3>2. /\ b.draft = t.workload.draft_token_num
          /\ c.draft = u.workload.draft_token_num
          /\ BlockEnd(b) = c.pos /\ BlockEnd(c) = fwd
      <4>1. 1 \in 1..Len(inflight_tasks)
        BY <3>1
      <4>2. t.workload.draft_token_num \in Nat
        BY <1>1, <4>1, StepTyped
      <4> QED BY <2>1, <3>1, <4>2 DEF BlockOf, BlockEnd
    <3> HIDE DEF b, c, t, u
    <3>3. /\ Len(pending_placeholders) = 2
          /\ pending_placeholders[1] = b /\ pending_placeholders[2] = c
      BY <3>1
    <3>4. \A i \in 1..2 : i = 1 \/ i = 2
      OBVIOUS
    <3> QED BY <2>1, <3>1, <3>2, <3>3, <3>4 DEF PlaceholderFifo, t, u
  <2>5. CASE is_eos_generated
    <3>1. Ended
      BY <1>1, <2>5 DEF TextInv, ShapeInv
    <3>2. CASE inflight_tasks = <<>> /\ pending_placeholders = <<>>
      BY <2>2, <3>2, EmptySeq
    <3>3. CASE Len(inflight_tasks) = 1
      <4> DEFINE d == inflight_tasks[1].workload.draft_token_num
                 pos == fwd - (1 + d)
      <4>1. pos \in Nat /\ fwd = pos + 1 + d
        <5>1. 1 \in 1..Len(inflight_tasks)
          BY <3>3
        <5>2. d \in Nat
          BY <1>1, <5>1, StepTyped
        <5>3. /\ pending_placeholders = <<BlockOf(inflight_tasks[1], pos)>>
              /\ pending_placeholders \in Seq(Block)
          <6>1. inflight_tasks # <<>>
            BY <3>3, EmptySeq
          <6> QED BY <1>1, <3>1, <6>1, StateTypes DEF Ended, TextInv, PartInv
        <5>4. BlockOf(inflight_tasks[1], pos) \in Block
          BY <5>3
        <5>5. pos \in Nat
          BY <5>4 DEF BlockOf, Block
        <5> HIDE DEF d
        <5> QED BY <2>1, <5>2, <5>5
      <4>2. /\ pending_placeholders = <<BlockOf(inflight_tasks[1], pos)>>
            /\ inflight_tasks[1].placeholder
        BY <3>1, <3>3, EmptySeq DEF Ended, DecodeStep
      <4> HIDE DEF pos
      <4> QED BY <2>3, <3>3, <4>1, <4>2
    <3> QED BY <3>1, <3>2, <3>3 DEF Ended
  <2>6. CASE Prompting
    BY <2>2, <2>6 DEF Prompting, MidStep, LastStep
  <2>7. CASE FirstAhead
    BY <2>1, <2>3, <2>7 DEF FirstAhead, LastStep, DecodeStep
  <2>8. CASE OneStep
    <3>1. CASE FastPath
      <4> DEFINE d == inflight_tasks[1].workload.draft_token_num
                 pos == out - 1
      <4>1. /\ Len(inflight_tasks) = 1 /\ inflight_tasks[1].placeholder
            /\ pending_placeholders = <<BlockOf(inflight_tasks[1], pos)>>
            /\ fwd = out + d
        BY <2>8, <3>1 DEF OneStep, DecodeStep
      <4>2. d \in Nat
        BY <1>1, <4>1, StepTyped
      <4>3. pos \in Nat /\ out + d = pos + 1 + d
        <5> HIDE DEF d
        <5> QED BY <2>1, <4>2
      <4> HIDE DEF pos
      <4> QED BY <2>3, <4>1, <4>3
    <3>2. CASE ~FastPath
      BY <2>1, <2>2, <2>8, <3>2 DEF OneStep, DecodeStep
    <3> QED BY <2>1, <3>1, <3>2
  <2>9. CASE Drained
    BY <2>2, <2>9, EmptySeq DEF Drained
  <2> QED BY <1>1, <2>4, <2>5, <2>6, <2>7, <2>8, <2>9 DEF TextInv, ShapeInv
<1> QED BY <1>1, TextCorrect, PTL

\* kv_cached_token_num is where a block starts while blocks are pending, whether
\* a launch set it or the retirement that trimmed the block before.
THEOREM KvAtBlockStartCorrect ==
  ASSUME AheadOfTime PROVE Spec => []KvAtBlockStart
<1>1. ASSUME TextInv, pending_placeholders # <<>>, ~is_eos_generated
      PROVE  \E i \in DOMAIN pending_placeholders :
               kv_cached_token_num = pending_placeholders[i].pos
  <2>1. FirstAhead \/ OneStep \/ TwoSteps
    BY <1>1 DEF TextInv, ShapeInv, Prompting, Drained
  <2>2. DOMAIN pending_placeholders = 1..Len(pending_placeholders)
    BY <1>1, StateTypes, LenProperties DEF TextInv, PartInv
  <2>3. CASE FirstAhead
    <3>1. /\ 1 \in 1..Len(pending_placeholders)
          /\ kv_cached_token_num = pending_placeholders[1].pos
      BY <2>3 DEF FirstAhead, BlockOf
    <3> QED BY <2>2, <3>1
  <2>4. CASE OneStep
    <3>1. FastPath
      BY <1>1, <2>4, TextNumbers DEF OneStep
    <3>2. /\ 1 \in 1..Len(pending_placeholders)
          /\ kv_cached_token_num = pending_placeholders[1].pos
      BY <2>4, <3>1 DEF OneStep, BlockOf
    <3> QED BY <2>2, <3>2
  <2>5. CASE TwoSteps
    <3>1. /\ 2 \in 1..Len(pending_placeholders)
          /\ kv_cached_token_num = pending_placeholders[2].pos
      BY <2>5 DEF TwoSteps, BlockOf
    <3> QED BY <2>2, <3>1
  <2> QED BY <2>1, <2>3, <2>4, <2>5
<1>2. TextInv => KvAtBlockStart
  BY <1>1 DEF KvAtBlockStart
<1> QED BY <1>2, TextCorrect, PTL

\* Every launched step has work, and its sequence is longer than what is cached:
\* the two asserts at the end of LaunchPlanningTask.
THEOREM LaunchedStepsHaveWorkCorrect ==
  ASSUME AheadOfTime PROVE Spec => []LaunchedStepsHaveWork
<1>1. ASSUME TextInv, NEW i \in 1..Len(inflight_tasks)
      PROVE  /\ GetTokenNum(inflight_tasks[i].workload) > 0
             /\ inflight_tasks[i].len > inflight_tasks[i].kv
  <2> DEFINE t == inflight_tasks[i]
  <2>1. t \in InflightTask
    BY <1>1, StepTyped
  <2>2. IsChunk(t.workload) \/ DecodeStep(t)
    <3>1. CASE Prompting
      BY <3>1 DEF Prompting, MidStep, LastStep
    <3>2. CASE FirstAhead \/ OneStep \/ TwoSteps
      <4>1. Len(inflight_tasks) = 1 \/ Len(inflight_tasks) = 2
        BY <3>2 DEF FirstAhead, OneStep, TwoSteps
      <4>2. i = 1 \/ (i = 2 /\ Len(inflight_tasks) = 2)
        <5> DEFINE k == Len(inflight_tasks)
        <5>1. i \in 1..k /\ (k = 1 \/ k = 2)
          BY <4>1
        <5> HIDE DEF k
        <5>2. (k = 1 => i = 1) /\ (k = 2 => i = 1 \/ i = 2)
          BY <5>1
        <5> QED BY <5>1, <5>2 DEF k
      <4> QED BY <3>2, <4>2 DEF FirstAhead, OneStep, TwoSteps, LastStep
    <3>3. ~Drained
      <4>1. Drained => Len(inflight_tasks) = 0
        BY EmptySeq DEF Drained
      <4> QED BY <4>1
    <3>4. CASE Ended
      <4>1. Len(inflight_tasks) = 1 /\ DecodeStep(inflight_tasks[1])
        BY <3>4, EmptySeq DEF Ended
      <4>2. i = 1
        BY <4>1
      <4> QED BY <4>1, <4>2
    <3> QED BY <1>1, <3>1, <3>2, <3>3, <3>4 DEF TextInv, ShapeInv
  <2>3. CASE IsChunk(t.workload)
    <3>1. /\ t.len = ChunkEnd(t.workload) + t.workload.draft_token_num
          /\ t.kv = t.workload.prefill_start_offset
      BY <1>1, <2>3 DEF TextInv, PartInv, ChunksTile
    <3> HIDE DEF t
    <3>2. /\ t.workload.prefill_token_num \in Nat
          /\ t.workload.prefill_start_offset \in Nat
          /\ t.workload.generated_token_num \in Nat
          /\ t.workload.draft_token_num \in Nat
          /\ t.workload.prefill_token_num > 0
      BY <2>1, <2>3, StepFields DEF IsChunk
    <3>3. GetTokenNum(t.workload) > 0
      BY <3>2 DEF GetTokenNum
    <3>4. t.len > t.kv
      BY <3>1, <3>2 DEF ChunkEnd
    <3> QED BY <3>3, <3>4 DEF t
  <2>4. CASE DecodeStep(t)
    <3> HIDE DEF t
    <3> QED BY <2>1, <2>4, StepFields DEF GetTokenNum, DecodeStep, OneDecode, t
  <2> QED BY <2>2, <2>3, <2>4
<1>2. TextInv => LaunchedStepsHaveWork
  BY <1>1, TextNumbers DEF LaunchedStepsHaveWork
<1> QED BY <1>2, TextCorrect, PTL

-----------------------------------------------------------------------------
(***************************************************************************)
(* The client's view: InferRequest implements Decode.                      *)
(***************************************************************************)

\* A step adds at most its bonus token and as many tokens as there are drafts.
LEMMA EmitOrKeep ==
  ASSUME TextInv, TextInv', [Next]_vars
  PROVE  /\ UNCHANGED eos
         /\ \/ UNCHANGED output_tokens
            \/ out < out' /\ out' <= out + 1 + MtpStepNum
<1>1. CASE UNCHANGED <<output_tokens, eos>>
  BY <1>1
<1>2. ASSUME NEW good \in 0..MtpStepNum, FinishStep(good)
      PROVE  /\ UNCHANGED eos
             /\ \/ UNCHANGED output_tokens
                \/ out < out' /\ out' <= out + 1 + MtpStepNum
  <2> DEFINE t == Head(inflight_tasks)
  <2>1. /\ LayoutInv /\ OutputInv /\ t \in InflightTask /\ UNCHANGED eos
        /\ exec_len = out /\ exec_len' = out'
        /\ output_tokens = Upto(out) /\ output_tokens' = Upto(out')
    BY <1>2, StateTypes, TailElements, RetireQueue
       DEF TextInv, PartInv, OutputInv, OutputIsText, out, HasInflightTask
  <2>2. CASE Samples(t) /\ ~is_eos_generated
    <3>1. out' = SampledLen(t)
      BY <1>2, <2>1, <2>2 DEF FinishStep
    <3>2. PICK v, len \in Nat :
            v <= MtpStepNum /\ len = SampledLen(t) /\ out < len /\ len <= out + v + 1
      BY <2>1, <2>2, SampleEffect
    <3>3. out \in Nat /\ MtpStepNum \in Nat
      BY <2>1, StateNumbers DEF out
    <3>4. out < out' /\ out' <= out + 1 + MtpStepNum
      <4> HIDE DEF out
      <4>1. out' = len
        BY <3>1, <3>2
      <4> DEFINE o == out'
      <4>2. o = len
        BY <4>1
      <4> HIDE DEF o
      <4>3. out < o /\ o <= out + 1 + MtpStepNum
        BY <3>2, <3>3, <4>2
      <4> QED BY <4>3 DEF o
    <3> QED BY <2>1, <3>4
  <2>3. CASE ~(Samples(t) /\ ~is_eos_generated)
    <3>1. exec_len' = exec_len
      BY <1>2, <2>3 DEF FinishStep
    <3> QED BY <2>1, <3>1
  <2> QED BY <2>2, <2>3
<1>3. ASSUME \/ \E n \in 1..Len(prefilling_tokens) : PrefixCacheHit(n)
             \/ \E n \in 0..MtpStepNum : SetInflightTaskGenResultEstimation(n)
             \/ \E n \in 1..Len(prefilling_tokens) : PlanPrefill(n)
             \/ PlanDecode \/ LaunchPlanningTask \/ Stop \/ Recover
             \/ Idle \/ UNCHANGED vars
      PROVE  UNCHANGED <<output_tokens, eos>>
  BY <1>3 DEF PrefixCacheHit, SetInflightTaskGenResultEstimation, PlanPrefill,
              PlanDecode, SetPlanningTask, LaunchPlanningTask, Stop, Recover, Idle,
              vars, request, pipeline, executor
<1>4. ASSUME Recompute PROVE UNCHANGED <<output_tokens, eos>>
  BY <1>4 DEF Recompute, ResetPrefillingTokens
<1> QED BY <1>1, <1>2, <1>3, <1>4 DEF Next

\* Whatever pipeline runs below it, a request promises its client what decoding
\* one step after the other would: a text that only grows, by the right tokens,
\* at most one bonus token and the drafts at a time, and not beyond its stop
\* token.
THEOREM RefinesDecodeCorrect == ASSUME AheadOfTime PROVE Spec => RefinesDecode
<1>1. Init => Client!Init
  BY DEF Init, Client!Init, Client!Prefix, Upto
<1>2. ASSUME TextInv, TextInv', [Next]_vars
      PROVE  [Client!Emit]_<<output_tokens, eos>>
  <2>1. /\ UNCHANGED eos
        /\ \/ UNCHANGED output_tokens
           \/ out < out' /\ out' <= out + 1 + MtpStepNum
    BY <1>2, EmitOrKeep
  <2>2. /\ output_tokens' = Upto(out') /\ out' <= eos' /\ out' \in Nat /\ out \in Nat
        /\ MtpStepNum \in Nat
    <3>1. out \in Nat /\ MtpStepNum \in Nat
      BY <1>2, TextNumbers, InferRequestAssumption
    <3>2. LayoutInv'
      BY <1>2 DEF TextInv, PartInv
    <3>3. output_tokens' \in Seq(Token)
      BY <3>2 DEF LayoutInv, TypeInv, TypeOK, TokensTyped
    <3>4. out' \in Nat
      BY <3>3, LenProperties DEF out
    <3> QED BY <1>2, <3>1, <3>4 DEF TextInv, OutputInv, OutputIsText, out
  <2>3. CASE UNCHANGED output_tokens
    BY <2>1, <2>3
  <2>4. CASE out < out' /\ out' <= out + 1 + MtpStepNum
    <3> DEFINE n == out' - out
    <3>1. n \in 1..(1 + MtpStepNum) /\ out + n = out'
      <4>1. \A a, b, m \in Nat :
              a < b /\ b <= a + 1 + m => b - a \in 1..(1 + m) /\ a + (b - a) = b
        OBVIOUS
      <4> QED BY <2>2, <2>4, <4>1
    <3> HIDE DEF n
    <3>2. /\ Len(output_tokens) + n <= eos
          /\ output_tokens' = Client!Prefix(Len(output_tokens) + n)
      BY <2>1, <2>2, <3>1 DEF Client!Prefix, Upto, out
    <3> QED BY <2>1, <3>1, <3>2 DEF Client!Emit
  <2> QED BY <2>1, <2>3, <2>4
<1>3. Spec => []TextInv
  BY TextCorrect
<1> QED BY <1>1, <1>2, <1>3, PTL DEF Spec, RefinesDecode, Client!Spec

-----------------------------------------------------------------------------
(***************************************************************************)
(* The slow path: the KV blocks the scheduler allocated are enough.  There *)
(* the planned step is the next one launched, and what it forwards only    *)
(* gets shorter in between, when a retirement cuts rejected drafts.        *)
(***************************************************************************)

\* On the slow path no placeholder exists and one step is in flight at most.
LEMMA SlowShapes ==
  ASSUME TextInv, ~FastPath
  PROVE  /\ pending_placeholders = <<>>
         /\ ~is_eos_generated => Prompting \/ OneStep \/ Drained
BY DEF TextInv, ShapeInv, Prompting, FirstAhead, OneStep, TwoSteps, Drained, Ended

\* On the slow path a return takes rejected drafts away and adds nothing.
LEMMA ForwardingShrinks ==
  ASSUME TextInv, ~FastPath, NEW good \in 0..MtpStepNum, FinishStep(good)
  PROVE  fwd' <= fwd
<1> DEFINE t == inflight_tasks[1]
           d == t.workload.draft_token_num
<1>1. /\ LayoutInv /\ HasInflightTask /\ Head(inflight_tasks) = t
      /\ t \in InflightTask /\ d \in Nat /\ fwd \in Nat
      /\ 1 \in 1..Len(inflight_tasks)
  <2>1. LayoutInv /\ inflight_tasks \in Seq(InflightTask) /\ fwd \in Nat
    BY StateTypes, StateNumbers DEF TextInv, PartInv, fwd
  <2>2. HasInflightTask
    BY DEF FinishStep
  <2>3. Head(inflight_tasks) = t /\ t \in InflightTask /\ 1 \in 1..Len(inflight_tasks)
    BY <2>1, <2>2, TailElements DEF HasInflightTask
  <2> QED BY <2>1, <2>2, <2>3, StepFields
<1>2. PICK gen, acc, dr : Retire(gen, acc, dr) /\ Len(acc) \in 0..d
  <2>1. CASE Samples(t) /\ ~is_eos_generated
    <3>1. Sample(t)
      BY <1>1, <2>1, SampleLengths DEF TextInv
    <3>2. Len(Accepted(t)) \in 0..d
      <4>1. Len(Accepted(t)) \in Nat /\ Len(Accepted(t)) <= d
        BY <3>1 DEF Sample
      <4> HIDE DEF d
      <4> QED BY <1>1, <4>1
    <3>3. Retire(Bonus(t), Accepted(t), Drafts(SampledLen(t), good))
      BY <1>1, <2>1 DEF FinishStep
    <3> QED BY <3>2, <3>3
  <2>2. CASE ~(Samples(t) /\ ~is_eos_generated)
    <3>1. Retire(<<>>, <<>>, <<>>)
      BY <1>1, <2>2 DEF FinishStep
    <3>2. Len(<<>>) \in 0..d
      <4> HIDE DEF d
      <4> QED BY <1>1, EmptySeq
    <3> QED BY <3>1, <3>2
  <2> QED BY <2>1, <2>2
<1>3. CASE UNCHANGED forwarding_tokens
  BY <1>1, <1>3 DEF fwd
<1>4. CASE RetireWithoutPlaceholder(gen, acc, dr) /\ d > 0
  <2>1. OneStep
    <3>1. ~is_eos_generated
      BY <1>4 DEF RetireWithoutPlaceholder
    <3>2. ~Prompting
      <4>1. Prompting => d = 0
        BY <1>1 DEF Prompting, MidStep, LastStep
      <4> HIDE DEF d
      <4> QED BY <1>4, <4>1
    <3>3. ~Drained
      BY <1>1 DEF Drained, HasInflightTask
    <3> QED BY <3>1, <3>2, <3>3, SlowShapes
  <2>2. /\ forwarding_tokens_draft_num = d
        /\ fwd = out + d /\ out \in Nat
    BY <2>1, TextNumbers DEF OneStep
  <2>3. forwarding_tokens' = Resize(forwarding_tokens, fwd - d + Len(acc))
    BY <1>1, <1>4, <2>2 DEF RetireWithoutPlaceholder, fwd
  <2> HIDE DEF d
  <2> DEFINE n == out + Len(acc)
  <2>4. n \in Nat /\ n <= fwd /\ fwd - d + Len(acc) = n
    BY <1>1, <1>2, <2>2
  <2> HIDE DEF n
  <2>5. Len(Resize(forwarding_tokens, n)) = n
    BY <2>4 DEF Resize
  <2> QED BY <2>3, <2>4, <2>5 DEF fwd
<1>5. CASE RetireWithoutPlaceholder(gen, acc, dr) /\ ~(d > 0)
  BY <1>1, <1>3, <1>5 DEF RetireWithoutPlaceholder
<1> QED BY <1>2, <1>3, <1>4, <1>5, SlowShapes
        DEF Retire, RetireAfterEos, RetireSplitPrefill,
            TryRetireBackfillNextPlaceholderBlock, RetireOwnPlaceholderBlockAndShift

\* A launched step is not longer than what it was planned for.
LEMMA LaunchCovered ==
  ASSUME TextInv, PlannedInv, ~FastPath, LaunchPlanningTask
  PROVE  \E t \in InflightTask : /\ inflight_tasks' = Append(inflight_tasks, t)
                                 /\ t.planned_len >= t.len
<1> DEFINE w == planning_task.workload
           planned == planning_task.planned_len
<1>1. /\ PartInv /\ WorkInv /\ OutputInv /\ ShapeInv /\ planned \in Nat
  BY StateTypes DEF TextInv, PartInv
<1>2. /\ ~is_eos_generated /\ HasInflightCapacity /\ HasPlanningTask
  BY <1>1, LaunchKeeps
<1>3. CASE LaunchPrefill
  <2>1. ~PromptLaunched
    BY <1>3 DEF LaunchPrefill, PromptLaunched, IsChunk
  <2>2. draft_tokens = <<>>
    BY <1>2, <2>1, SlowShapes DEF OneStep, Drained, Prompting
  <2>3. Len(IF ChunkEnd(w) = Len(prefilling_tokens) THEN draft_tokens ELSE <<>>) = 0
    BY <2>2, EmptySeq
  <2> DEFINE t == NewStep
  <2>4. /\ IsChunk(w) /\ ChunkEnd(w) \in Nat /\ t \in InflightTask
        /\ inflight_tasks' = Append(inflight_tasks, t)
        /\ t.planned_len = planned /\ t.len = ChunkEnd(w) + 0
    <3> HIDE DEF t, w, planned
    <3> QED BY <1>1, <1>2, <1>3, <2>3, LaunchPrefillEffect DEF t, w, planned
  <2>5. planned >= ChunkEnd(w)
    BY <2>4 DEF PlannedInv
  <2> HIDE DEF t
  <2> QED BY <2>4, <2>5
<1>4. CASE w.prefill_token_num = 0 /\ AppendDecodeTokensWithoutPlaceholder
  <2> DEFINE n == Len(draft_tokens')
             t == NewStep
             e == w.draft_token_num
  <2>1. OneDecode(w) /\ e \in Nat
    BY <1>1, <1>4, DecodeLaunch
  <2>2. Drained
    <3>1. OneStep'
      BY <1>1, <1>2, <1>4, ShapeAppend DEF ShapeInv
    <3>2. Len(inflight_tasks) = 0
      BY <1>1, <1>2, StateNumbers
         DEF HasInflightCapacity, max_depth, PartInv
    <3>3. inflight_tasks = <<>> /\ PromptLaunched
      BY <1>1, <1>4, <3>2, StateTypes, EmptySeq, DecodeLaunch DEF PartInv
    <3> QED BY <1>2, <3>2, <3>3, SlowShapes DEF OneStep, Prompting
  <2>3. Len(generated_tokens) = 1 /\ fwd \in Nat /\ Len(draft_tokens) \in Nat
    BY <1>1, <2>2, StateNumbers DEF Drained, PartInv, fwd
  <2>4. /\ n \in Nat /\ t \in InflightTask
        /\ n = Min2(w.generated_token_num + e - 1, Len(draft_tokens))
        /\ inflight_tasks' = Append(inflight_tasks, t)
        /\ t.planned_len = planned /\ t.len = fwd + 1 + n
    <3> HIDE DEF n, t, w, e, planned
    <3> QED BY <1>1, <1>2, <1>4, <2>3, AppendEffect DEF n, t, w, e, planned
  <2>5. planned >= fwd + 1 + e
    BY <1>2, <1>4 DEF PlannedInv, IsChunk
  <2> HIDE DEF n, t, e, planned
  <2>6. w.generated_token_num + e - 1 = e
    BY <2>1 DEF OneDecode
  <2>7. n <= e
    BY <2>1, <2>3, <2>4, <2>6 DEF Min2
  <2>8. t.planned_len >= t.len
    BY <1>1, <2>1, <2>3, <2>4, <2>5, <2>7
  <2> QED BY <2>4, <2>8
<1> QED BY <1>3, <1>4 DEF LaunchPlanningTask, ReserveBuildAheadPlaceholderBlock

\* What neither plans, launches nor returns.
LEMMA PlannedKept ==
  ASSUME PlannedInv, UNCHANGED <<planning_task, forwarding_tokens, inflight_tasks>>
  PROVE  PlannedInv'
BY DEF PlannedInv, PlanningLenCoversLaunch, HasPlanningTask, fwd

\* Nothing is planned, and every step in flight is covered.
LEMMA NothingPlannedCovered ==
  ASSUME PartInv', planning_task' = NoTask,
         \A i \in 1..Len(inflight_tasks') :
           inflight_tasks'[i].planned_len >= inflight_tasks'[i].len
  PROVE  PlannedInv'
<1>1. ~HasPlanningTask' /\ ~IsChunk(planning_task'.workload)
  BY DEF HasPlanningTask, IsEmpty, GetTokenNum, NoTask, NoWork, DecodeWork, IsChunk
<1>2. LayoutInv'
  BY DEF PartInv
<1>3. inflight_tasks' \in Seq(InflightTask)
  BY <1>2 DEF LayoutInv, TypeInv, TypeOK, QueuesTyped
<1>4. DOMAIN inflight_tasks' = 1..Len(inflight_tasks')
  BY <1>3, LenProperties
<1> QED BY <1>1, <1>4 DEF PlannedInv, PlanningLenCoversLaunch

\* A plan covers what its launch will append.
LEMMA PlannedPlan ==
  ASSUME TextInv, PlannedInv, ~FastPath,
         \/ \E n \in 1..Len(prefilling_tokens) : PlanPrefill(n)
         \/ PlanDecode
  PROVE  PlannedInv'
<1>1. fwd \in Nat /\ LayoutInv /\ pending_placeholders = <<>>
  BY TextNumbers, SlowShapes DEF TextInv, PartInv
<1>2. ASSUME NEW w \in Workload, SetPlanningTask(w),
             ~IsChunk(w) => OneDecode(w)
      PROVE  PlannedInv'
  <2> DEFINE len == GetPlanningSequenceLen(w)
  <2>1. /\ planning_task'.workload = w /\ planning_task'.planned_len = len
        /\ UNCHANGED pipeline
    BY <1>1, <1>2, PlanSplits DEF SetPlanningTask
  <2>2. /\ w.prefill_token_num \in Nat /\ w.prefill_start_offset \in Nat
        /\ w.generated_token_num \in Nat /\ w.draft_token_num \in Nat
    BY WorkloadFields
  <2>3. IsChunk(w) => len >= ChunkEnd(w)
    BY <2>2 DEF GetPlanningSequenceLen, GetTokenNum, ChunkEnd, IsChunk
  <2>4. ~IsChunk(w) => len >= fwd + 1 + w.draft_token_num
    <3>1. ASSUME ~IsChunk(w) PROVE len = fwd + GetTokenNum(w)
      BY <1>1, <3>1 DEF GetPlanningSequenceLen, IsChunk, fwd
    <3> HIDE DEF len
    <3> QED BY <1>1, <1>2, <2>2, <3>1 DEF GetTokenNum, OneDecode
  <2> HIDE DEF len
  <2>5. UNCHANGED <<forwarding_tokens, inflight_tasks>>
    BY <2>1 DEF pipeline
  <2> QED BY <2>1, <2>3, <2>4, <2>5 DEF PlannedInv, PlanningLenCoversLaunch, fwd
<1>3. ASSUME NEW n \in 1..Len(prefilling_tokens), PlanPrefill(n) PROVE PlannedInv'
  <2> DEFINE w == PrefillWork(n, remaining_workload.prefill_start_offset)
  <2>1. n \in Nat /\ n > 0 /\ remaining_workload.prefill_start_offset \in Nat
    BY <1>1, StateTypes, WorkloadFields, StateNumbers
  <2>2. w \in Workload /\ IsChunk(w)
    BY <2>1, WorkTypes DEF IsChunk, PrefillWork
  <2>3. SetPlanningTask(w)
    BY <1>3 DEF PlanPrefill
  <2> HIDE DEF w
  <2> QED BY <1>2, <2>2, <2>3
<1>4. ASSUME PlanDecode PROVE PlannedInv'
  <2>1. /\ planning_workload \in Workload /\ SetPlanningTask(planning_workload)
        /\ ~IsEmpty(planning_workload) /\ ~is_eos_generated
    BY <1>1, <1>4, StateTypes DEF PlanDecode, SetPlanningTask, CanPlan
  <2>2. ~IsChunk(planning_workload) => OneDecode(planning_workload)
    BY <2>1 DEF TextInv, WorkInv
  <2> QED BY <1>2, <2>1, <2>2
<1> QED BY <1>3, <1>4

\* A return leaves no more to cover.
LEMMA PlannedFinish ==
  ASSUME TextInv, PlannedInv, ~FastPath, NEW good \in 0..MtpStepNum,
         FinishStep(good), TextInv'
  PROVE  PlannedInv'
<1> DEFINE k == Len(inflight_tasks)
<1>1. PartInv /\ inflight_tasks' = Tail(inflight_tasks) /\ UNCHANGED planning_task
      /\ HasInflightTask
  BY RetireQueue DEF TextInv
<1>2. /\ k \in Nat /\ Len(inflight_tasks') = k - 1
      /\ \A i \in 1..(k - 1) : inflight_tasks'[i] = inflight_tasks[i + 1]
      /\ inflight_tasks' \in Seq(InflightTask)
      /\ DOMAIN inflight_tasks = 1..k
  BY <1>1, StateTypes, TailElements, LenProperties DEF PartInv, HasInflightTask
<1>3. DOMAIN inflight_tasks' = 1..(k - 1)
  BY <1>2, LenProperties
<1>4. PlanningLenCoversLaunch'
  <2>1. ASSUME NEW i \in 1..(k - 1)
        PROVE  inflight_tasks'[i].planned_len >= inflight_tasks'[i].len
    <3>1. i + 1 \in 1..k
      BY <1>2
    <3> QED BY <1>2, <3>1 DEF PlannedInv, PlanningLenCoversLaunch
  <2> QED BY <1>3, <2>1 DEF PlanningLenCoversLaunch
<1>5. fwd \in Nat /\ fwd' \in Nat /\ fwd' <= fwd
  <2>1. LayoutInv'
    BY DEF TextInv, PartInv
  <2>2. forwarding_tokens' \in Seq(Token)
    BY <2>1 DEF LayoutInv, TypeInv, TypeOK, TokensTyped
  <2> QED BY <2>2, ForwardingShrinks, TextNumbers, LenProperties DEF fwd
<1>6. ASSUME HasPlanningTask', ~IsChunk(planning_task'.workload)
      PROVE  planning_task'.planned_len
               >= fwd' + 1 + planning_task'.workload.draft_token_num
  <2>1. /\ planning_task.planned_len \in Nat
        /\ planning_task.workload.draft_token_num \in Nat
    BY <1>1, StateTypes, WorkloadFields DEF PartInv
  <2>2. planning_task.planned_len
          >= fwd + 1 + planning_task.workload.draft_token_num
    BY <1>1, <1>6 DEF PlannedInv, HasPlanningTask
  <2> QED BY <1>1, <1>5, <2>1, <2>2
<1> QED BY <1>1, <1>4, <1>6 DEF PlannedInv

\* On the slow path every launched step forwards a sequence that fits into the
\* KV blocks the scheduler allocated for it, whose number it takes from
\* GetPlanningSequenceLen before the step is launched.
THEOREM PlanningLenCoversLaunchCorrect ==
  ASSUME ~FastPath PROVE Spec => []PlanningLenCoversLaunch
<1>1. AheadOfTime
  BY DEF AheadOfTime
<1>2. Init => PlannedInv
  <2> SUFFICES ASSUME Init PROVE PlannedInv
    OBVIOUS
  <2>1. inflight_tasks = <<>> /\ planning_task = NoTask
    BY DEF Init
  <2>2. Len(inflight_tasks) = 0 /\ DOMAIN inflight_tasks = {}
    BY <2>1, EmptySeq
  <2>3. ~HasPlanningTask /\ ~IsChunk(planning_task.workload)
    BY <2>1 DEF HasPlanningTask, IsEmpty, GetTokenNum, NoTask, NoWork, DecodeWork,
                IsChunk
  <2> QED BY <2>2, <2>3 DEF PlannedInv, PlanningLenCoversLaunch
<1>3. ASSUME TextInv, TextInv', PlannedInv, [Next]_vars PROVE PlannedInv'
  <2>1. CASE LaunchPlanningTask
    <3>1. PICK t \in InflightTask : /\ inflight_tasks' = Append(inflight_tasks, t)
                                    /\ t.planned_len >= t.len
      BY <1>3, <2>1, LaunchCovered
    <3>2. inflight_tasks \in Seq(InflightTask)
          /\ DOMAIN inflight_tasks = 1..Len(inflight_tasks)
          /\ Len(inflight_tasks) \in Nat
      BY <1>3, StateTypes, LenProperties DEF TextInv, PartInv
    <3>3. /\ Len(inflight_tasks') = Len(inflight_tasks) + 1
          /\ \A i \in 1..Len(inflight_tasks) : inflight_tasks'[i] = inflight_tasks[i]
          /\ inflight_tasks'[Len(inflight_tasks) + 1] = t
      BY <3>1, <3>2, AppendElements
    <3>4. ASSUME NEW i \in 1..Len(inflight_tasks')
          PROVE  inflight_tasks'[i].planned_len >= inflight_tasks'[i].len
      <4>1. i \in 1..Len(inflight_tasks) \/ i = Len(inflight_tasks) + 1
        BY <3>2, <3>3
      <4> QED BY <1>3, <3>1, <3>2, <3>3, <4>1 DEF PlannedInv, PlanningLenCoversLaunch
    <3>5. planning_task' = NoTask /\ PartInv'
      BY <1>3, <2>1 DEF LaunchPlanningTask, TextInv
    <3> QED BY <3>4, <3>5, NothingPlannedCovered
  <2>2. CASE \/ \E n \in 1..Len(prefilling_tokens) : PlanPrefill(n)
             \/ PlanDecode
    BY <1>3, <2>2, PlannedPlan
  <2>3. ASSUME NEW good \in 0..MtpStepNum, FinishStep(good) PROVE PlannedInv'
    BY <1>3, <2>3, PlannedFinish
  <2>4. CASE \/ \E n \in 1..Len(prefilling_tokens) : PrefixCacheHit(n)
             \/ \E n \in 0..MtpStepNum : SetInflightTaskGenResultEstimation(n)
             \/ Stop \/ Idle \/ UNCHANGED vars
    BY <1>3, <2>4, PlannedKept
       DEF PrefixCacheHit, SetInflightTaskGenResultEstimation, Stop, Idle, vars,
           request, pipeline
  <2>5. CASE Recompute \/ Recover
    <3>1. planning_task' = NoTask /\ PartInv' /\ inflight_tasks' = <<>>
      BY <1>3, <2>5 DEF Recompute, ResetPrefillingTokens, Recover, TextInv, pipeline,
                        HasInflightTask
    <3>2. Len(inflight_tasks') = 0
      BY <3>1, EmptySeq
    <3> QED BY <3>1, <3>2, NothingPlannedCovered
  <2> QED BY <1>3, <2>1, <2>2, <2>3, <2>4, <2>5 DEF Next
<1>4. PlannedInv => PlanningLenCoversLaunch
  BY DEF PlannedInv
<1>5. Spec => []TextInv
  BY <1>1, TextCorrect
<1> QED BY <1>2, <1>3, <1>4, <1>5, PTL DEF Spec
================================================================================

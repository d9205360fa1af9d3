---------------------------- MODULE MtpSerialProofs ----------------------------
(***************************************************************************)
(* The executor of MtpSerial is the oracle of InferRequest, for every      *)
(* prompt and every number of drafts: it forwards the text, it agrees with *)
(* the Engine on where the block is that verification cuts, and every step *)
(* of the two threads is a step of InferRequest or none.                   *)
(*                                                                         *)
(* The hypothesis is that of InferRequestProofs: the next step is          *)
(* launched before the only one in flight retires (no bubbles).  Its five  *)
(* shapes say what the Engine holds.  Here they are joined by what the     *)
(* steps on their way carry and what the Execute thread keeps between two  *)
(* of them; the steps in flight are the answers that the Engine has not    *)
(* taken, then the snapshots that the Execute thread has not:              *)
(*                                                                         *)
(*   AnswersInv  the answers are the oracle's                              *)
(*   SnapInv     a snapshot is the prompt up to its chunk; or the text up  *)
(*               to the drafts of the step before it, these drafts, and an *)
(*               empty block: what repair needs and no more                *)
(*   RanInv      ring, last block, frozen drafts and KV cache are those of *)
(*               the last step that ran; or empty before the first one; or *)
(*               anything while the next step will have them cleared       *)
(***************************************************************************)
EXTENDS MtpSerial, InferRequestProofs

NoBubbles == ~Bubbles

-----------------------------------------------------------------------------
(***************************************************************************)
(* The invariant.                                                          *)
(***************************************************************************)

answered == Len(results)
DraftsOf(t) == t.workload.draft_token_num

\* The step that ran last forwarded exec_base tokens of the text and exec_draft
\* drafts behind them.
exec_draft == exec_req.draft_num
exec_base == Len(exec_req.fwd) - exec_draft

\* At most two steps are in flight.
Queue2(q) == \/ q = <<>>
             \/ \E a : q = <<a>>
             \/ \E a, b : q = <<a, b>>

\* The n tokens of the text behind the first len.
NextTokens(len, n) == [i \in 1..n |-> len + i]

\* What the oracle of InferRequest answers to a step that verifies d drafts when
\* the text is len tokens long, good of the executor's drafts are right and next
\* of those it proposes now will be.
Verdict(len, good, d, next) ==
  LET v == Min2(good, d)
      full == len + v + 1
      end == IF len < eos /\ eos <= full THEN eos ELSE full
  IN  [gen |-> IF end = full THEN <<end>> ELSE <<>>,
       acc |-> NextTokens(len, Min2(v, end - len)),
       dr |-> Drafts(end, next), len |-> end, good |-> next]

RightAnswer(r, t, len, good) ==
  IF Samples(t)
    THEN \E next \in 0..MtpStepNum : r = Verdict(len, good, DraftsOf(t), next)
    ELSE r = NoAnswer

\* The text and the right drafts behind the i-th step in flight.
LenAfter(i, len) == IF Samples(inflight_tasks[i]) THEN results[i].len ELSE len
GoodAfter(i, good) == IF Samples(inflight_tasks[i]) THEN results[i].good ELSE good

\* ... and behind the last one that ran.
ran_len == IF answered = 0 THEN exec_len
           ELSE IF answered = 1 THEN LenAfter(1, exec_len)
           ELSE LenAfter(2, LenAfter(1, exec_len))
ran_good == IF answered = 0 THEN exec_good
            ELSE IF answered = 1 THEN GoodAfter(1, exec_good)
            ELSE GoodAfter(2, GoodAfter(1, exec_good))

\* An answer on its way ends the text: what runs behind it does not matter.
HasEnded == \E i \in 1..answered : results[i].len = eos
EndedEarlier == answered = 2 /\ results[1].len = eos

QueueInv ==
  /\ Queue2(results) /\ Queue2(dispatched)
  /\ Len(inflight_tasks) = answered + Len(dispatched)

AnswersInv ==
  /\ answered >= 1 => RightAnswer(results[1], inflight_tasks[1], exec_len, exec_good)
  /\ answered = 2 /\ ~EndedEarlier
       => RightAnswer(results[2], inflight_tasks[2],
                      LenAfter(1, exec_len), GoodAfter(1, exec_good))

\* A chunk of the prompt.
ChunkSnap(s, t) ==
  /\ s.kind = t.kind /\ s.fwd = Upto(t.len)
  /\ s.draft_num = 0 /\ s.ph = NoPlaceholder

\* A decode step, launched behind one that forwards base tokens and d drafts.
DecodeSnap(s, t, base, d) ==
  /\ s.kind = "decode" /\ s.fwd \in Seq(Token)
  /\ Len(s.fwd) = base + d + 1 + DraftsOf(t)
  /\ \A i \in 1..base : s.fwd[i] = i
  /\ s.kv = base + d /\ s.ph = base + d
  /\ s.draft_num = DraftsOf(t) /\ ~s.recompute

\* The step that the Execute thread takes next.
NextTask == inflight_tasks[answered + 1]

NextSnap ==
  IF NextTask.kind = "decode"
    THEN ~HasEnded => DecodeSnap(dispatched[1], NextTask, exec_base, exec_draft)
    ELSE ChunkSnap(dispatched[1], NextTask)

SecondSnap ==
  LET t == inflight_tasks[2]
      s == dispatched[2]
  IN  /\ ~s.recompute
      /\ IF t.kind = "decode"
           THEN DecodeSnap(s, t, exec_len, DraftsOf(inflight_tasks[1]))
           ELSE ChunkSnap(s, t)

SnapInv ==
  /\ dispatched # <<>> => NextSnap
  /\ Len(dispatched) = 2 => SecondSnap

\* The Execute thread has run a step that samples since the request's prompt was
\* last forwarded from its beginning.
HasRun == \/ infer_stage = "decode"
          \/ \E i \in 1..answered : Samples(inflight_tasks[i])

\* The next step will have its state cleared.
Stale == recompute_ids \/ (dispatched # <<>> /\ dispatched[1].recompute)

IsFresh(entry, last, frozen, cached) ==
  /\ entry = NoEntry /\ last = NoBlock /\ frozen = NoDrafts
  /\ cached = Upto(Len(cached)) /\ Len(cached) \in Nat

Fresh == IsFresh(host_ring, last_block, next_drafts, kv_cache)

\* What a step on base tokens and d drafts leaves behind when the text is len
\* tokens long now.
LeftBehind(len, good, base, d, entry, frozen, cached) ==
  /\ base < len /\ len <= base + d + 1
  /\ entry = [token |-> len, accepted |-> NextTokens(base, len - 1 - base)]
  /\ frozen = Drafts(len, good)
  /\ cached \in Seq(Token) /\ Len(cached) = base + d
  /\ \A i \in 1..(len - 1) : cached[i] = i

Ran(len, good) ==
  LeftBehind(len, good, exec_base, exec_draft, host_ring, next_drafts, kv_cache)

\* The i-th step in flight was the last one that ran, on a text of len tokens.
RanLast(i, len) ==
  /\ exec_base = len /\ exec_draft = DraftsOf(inflight_tasks[i])
  /\ inflight_tasks[i].kind = "decode"
       => last_block = [pos |-> len - 1, draft |-> exec_draft]

RanInv ==
  IF HasRun
    THEN ~EndedEarlier =>
           /\ exec_base \in Nat /\ exec_base >= 1 /\ exec_draft \in Nat
           /\ \/ last_block = [pos |-> exec_base - 1, draft |-> exec_draft]
              \/ last_block = NoBlock /\ exec_draft = 0
           /\ ~HasEnded => Ran(ran_len, ran_good)
           /\ answered = 1 => RanLast(1, exec_len)
           /\ answered = 2 => RanLast(2, LenAfter(1, exec_len))
    ELSE Stale \/ Fresh

PathInv ==
  ~is_eos_generated =>
    /\ AnswersInv /\ SnapInv /\ RanInv
    /\ recompute_ids => inflight_tasks = <<>>

SerialInv == TextInv /\ QueueInv /\ PathInv /\ ExecutorForwardsText

-----------------------------------------------------------------------------
(***************************************************************************)
(* Queues of at most two.                                                  *)
(***************************************************************************)

\* What its length says of a queue.
LEMMA QueueLen ==
  ASSUME NEW q, Queue2(q)
  PROVE  /\ Len(q) \in {0, 1, 2}
         /\ q = <<>> <=> Len(q) = 0
         /\ Len(q) = 1 => q = <<q[1]>>
         /\ Len(q) = 2 => q = <<q[1], q[2]>>
<1>1. CASE q = <<>>
  <2>1. Len(<<>>) = 0
    BY EmptySeq
  <2> QED BY <1>1, <2>1
<1>2. CASE \E a : q = <<a>>
  BY <1>2
<1>3. CASE \E a, b : q = <<a, b>>
  BY <1>3
<1> QED BY <1>1, <1>2, <1>3 DEF Queue2

\* A queue after an append.
LEMMA QueuePush ==
  ASSUME NEW q, NEW x, Queue2(q), Len(q) # 2
  PROVE  /\ Queue2(Append(q, x)) /\ Append(q, x) # <<>>
         /\ Len(Append(q, x)) = Len(q) + 1
         /\ Append(q, x)[Len(q) + 1] = x
         /\ Len(q) = 1 => Append(q, x)[1] = q[1]
<1>1. CASE q = <<>>
  <2>1. Append(q, x) = <<x>>
    BY <1>1
  <2>2. Len(q) = 0 /\ Queue2(<<x>>)
    BY <1>1, QueueLen DEF Queue2
  <2>3. Len(<<x>>) = 1 /\ <<x>>[1] = x /\ <<x>> # <<>>
    OBVIOUS
  <2> QED BY <2>1, <2>2, <2>3
<1>2. CASE Len(q) = 1
  <2>1. q = <<q[1]>>
    BY <1>2, QueueLen
  <2>2. Append(<<q[1]>>, x) = <<q[1], x>>
    BY AppendToOne
  <2>3. Append(q, x) = <<q[1], x>>
    BY <2>1, <2>2
  <2>4. Queue2(<<q[1], x>>)
    BY DEF Queue2
  <2> QED BY <1>2, <2>3, <2>4
<1> QED BY <1>1, <1>2, QueueLen

\* A queue of which the oldest element is taken.
LEMMA QueuePop ==
  ASSUME NEW q, Queue2(q), q # <<>>
  PROVE  /\ Queue2(Tail(q)) /\ Len(Tail(q)) = Len(q) - 1
         /\ Len(q) \in {1, 2} /\ Head(q) = q[1]
         /\ Len(q) = 1 => Tail(q) = <<>>
         /\ Len(q) = 2 => Tail(q)[1] = q[2]
<1>1. CASE Len(q) = 1
  <2>1. q = <<q[1]>>
    BY <1>1, QueueLen
  <2> DEFINE a == q[1]
  <2> HIDE DEF a
  <2>2. Tail(<<a>>) = <<>> /\ Head(<<a>>) = a
    OBVIOUS
  <2>3. q = <<a>>
    BY <2>1 DEF a
  <2> QED BY <1>1, <2>2, <2>3, QueueLen DEF Queue2
<1>2. CASE Len(q) = 2
  <2>1. q = <<q[1], q[2]>>
    BY <1>2, QueueLen
  <2> DEFINE a == q[1]
             b == q[2]
  <2> HIDE DEF a, b
  <2>2. Tail(<<a, b>>) = <<b>> /\ Head(<<a, b>>) = a
    OBVIOUS
  <2>3. q = <<a, b>>
    BY <2>1 DEF a, b
  <2>4. Len(<<b>>) = 1 /\ <<b>>[1] = b
    OBVIOUS
  <2>5. Tail(q) = <<b>> /\ Head(q) = a
    BY <2>2, <2>3
  <2>6. Queue2(Tail(q))
    BY <2>5 DEF Queue2
  <2> DEFINE r == Tail(q)
  <2>7. Len(r) = 1 /\ r[1] = b
    <3>1. r = <<b>>
      BY <2>5
    <3> HIDE DEF r
    <3> QED BY <2>4, <3>1
  <2> QED BY <1>2, <2>5, <2>6, <2>7 DEF a, b
<1> QED BY <1>1, <1>2, QueueLen

-----------------------------------------------------------------------------
(***************************************************************************)
(* What the model answers to a right context.                              *)
(***************************************************************************)

\* The text of len tokens and d drafts behind it, the first good of them right.
GoodContext(len, good, d) ==
  [i \in 1..(len + d) |-> IF i <= len + good THEN i ELSE Wrong]

\* A context, token by token.
LEMMA ContextElements ==
  ASSUME NEW len \in Nat, NEW good \in Nat, NEW d \in Nat
  PROVE  /\ GoodContext(len, good, d) \in Seq(Token)
         /\ Len(GoodContext(len, good, d)) = len + d
         /\ DOMAIN GoodContext(len, good, d) = 1..(len + d)
         /\ \A i \in 1..(len + d) :
              GoodContext(len, good, d)[i] = IF i <= len + good THEN i ELSE Wrong
<1> DEFINE c == GoodContext(len, good, d)
           n == len + d
<1>1. /\ c = [i \in 1..n |-> c[i]] /\ DOMAIN c = 1..n
      /\ \A i \in 1..n : c[i] = IF i <= len + good THEN i ELSE Wrong
  BY DEF GoodContext
<1>2. n \in Int /\ n >= 0
  OBVIOUS
<1>3. \A i \in 1..n : c[i] \in Token
  BY <1>1, <1>2 DEF Token, Wrong
<1> HIDE DEF c, n
<1>4. c \in Seq(Token) /\ Len(c) = n
  BY <1>1, <1>2, <1>3, FunctionIsSeq
<1> QED BY <1>1, <1>4 DEF c, n

\* A context without drafts is the text.
LEMMA ContextIsText ==
  ASSUME NEW len \in Nat, NEW good \in Nat
  PROVE  GoodContext(len, good, 0) = Upto(len)
<1>1. len + 0 = len /\ \A i \in 1..len : i <= len + good
  OBVIOUS
<1> QED BY <1>1 DEF GoodContext, Upto

\* Verification accepts the right drafts and no more.
LEMMA RightDraftsOfContext ==
  ASSUME NEW len \in Nat, NEW good \in Nat, NEW d \in Nat
  PROVE  RightDrafts(GoodContext(len, good, d), len) = Min2(good, d)
<1> DEFINE c == GoodContext(len, good, d)
           v == Min2(good, d)
           P(x) == /\ \A i \in 1..x : c[len + i] = len + i
                   /\ x < d => c[len + x + 1] # len + x + 1
<1>1. /\ Len(c) = len + d
      /\ \A i \in 1..d : c[len + i] = IF i <= good THEN len + i ELSE Wrong
  <2>1. \A i \in 1..d : /\ len + i \in 1..(len + d)
                        /\ len + i <= len + good <=> i <= good
    OBVIOUS
  <2> QED BY <2>1, ContextElements
<1>2. v \in 0..d /\ (v < d => v = good) /\ v <= good
  BY DEF Min2
<1> HIDE DEF c, v
<1>3. P(v)
  <2>1. \A i \in 1..v : i \in 1..d /\ i <= good
    BY <1>2
  <2>2. v < d => v + 1 \in 1..d /\ ~(v + 1 <= good)
    BY <1>2
  <2>3. v < d => Wrong # len + v + 1 /\ len + (v + 1) = len + v + 1
    BY <1>2 DEF Wrong
  <2> QED BY <1>1, <2>1, <2>2, <2>3
<1>4. ASSUME NEW x \in 0..d, P(x) PROVE x = v
  <2>1. CASE x < v
    <3>1. x + 1 \in 1..v /\ x < d /\ len + (x + 1) = len + x + 1
      BY <1>2, <2>1
    <3> QED BY <1>3, <1>4, <3>1
  <2>2. CASE v < x
    <3>1. v + 1 \in 1..x /\ v < d /\ len + (v + 1) = len + v + 1
      BY <1>2, <2>2
    <3> QED BY <1>3, <1>4, <3>1
  <2> QED BY <1>2, <2>1, <2>2
<1>5. (CHOOSE x \in 0..d : P(x)) = v
  <2> HIDE DEF P
  <2> QED BY <1>2, <1>3, <1>4
<1>6. Len(c) - len = d
  BY <1>1
<1> QED BY <1>5, <1>6 DEF RightDrafts, c, v

\* The model answers to a right context what the oracle answers.
LEMMA AnswerIsVerdict ==
  ASSUME NEW len \in Nat, NEW good \in Nat, NEW d \in Nat, NEW next
  PROVE  Answer(GoodContext(len, good, d), d, next) = Verdict(len, good, d, next)
<1> DEFINE c == GoodContext(len, good, d)
<1>1. Len(c) - d = len
  BY ContextElements
<1>2. RightDrafts(c, len) = Min2(good, d)
  BY RightDraftsOfContext
<1>3. IsText(c, len)
  <2>1. \A i \in 1..len : i \in 1..(len + d) /\ i <= len + good
    OBVIOUS
  <2> QED BY <2>1, ContextElements DEF IsText
<1> HIDE DEF c
<1> DEFINE v == Min2(good, d)
           full == len + v + 1
           end == IF len < eos /\ eos <= full THEN eos ELSE full
<1> DEFINE accepted == NextTokens(len, Min2(v, end - len))
           bonus(x) == IF end = full THEN <<x>> ELSE <<>>
<1>4. Answer(c, d, next)
        = [gen |-> bonus(full), acc |-> accepted,
           dr |-> Drafts(end, next), len |-> end, good |-> next]
  BY <1>1, <1>2, <1>3 DEF Answer, NextTokens
<1>5. Verdict(len, good, d, next)
        = [gen |-> bonus(end), acc |-> accepted,
           dr |-> Drafts(end, next), len |-> end, good |-> next]
  BY DEF Verdict
<1>6. bonus(full) = bonus(end)
  <2> HIDE DEF v, full, end
  <2> QED OBVIOUS
<1> HIDE DEF v, full, end, accepted, bonus
<1> QED BY <1>4, <1>5, <1>6 DEF c

\* The oracle's answer: the text grows, not beyond its end; and if it does not
\* end, there is a bonus token behind the accepted drafts.
LEMMA VerdictFields ==
  ASSUME NEW len \in Nat, NEW good \in Nat, NEW d \in Nat, NEW next, eos \in Nat,
         len < eos
  PROVE  LET r == Verdict(len, good, d, next)
             v == Min2(good, d)
         IN  /\ r.len \in Nat /\ len < r.len /\ r.len <= eos
             /\ r.len <= len + v + 1 /\ v \in Nat /\ v <= good /\ v <= d
             /\ r.good = next /\ r.dr = Drafts(r.len, next)
             /\ r.len # eos => /\ r.len = len + v + 1 /\ r.gen = <<r.len>>
                               /\ r.acc = NextTokens(len, v)
<1> DEFINE v == Min2(good, d)
           full == len + v + 1
           end == IF len < eos /\ eos <= full THEN eos ELSE full
           r == Verdict(len, good, d, next)
<1>1. v \in Nat /\ v <= good /\ v <= d
  BY DEF Min2
<1> HIDE DEF v
<1>2. end \in Nat /\ len < end /\ end <= eos /\ end <= full
      /\ (end # eos => end = full)
  BY <1>1
<1>3. end # eos => Min2(v, end - len) = v
  BY <1>1, <1>2 DEF Min2
<1>4. /\ r.len = end /\ r.good = next /\ r.dr = Drafts(end, next)
      /\ r.gen = IF end = full THEN <<end>> ELSE <<>>
      /\ r.acc = NextTokens(len, Min2(v, end - len))
  BY DEF Verdict, v
<1> HIDE DEF end, r
<1> QED BY <1>1, <1>2, <1>3, <1>4 DEF r, v

-----------------------------------------------------------------------------
(***************************************************************************)
(* Repair.                                                                 *)
(***************************************************************************)

\* What is kept of the sequence of a snapshot: base tokens of the text, and the
\* accepted drafts in place of what the Engine launched behind them.
LEMMA PrefixIsText ==
  ASSUME NEW f \in Seq(Token), NEW base \in Nat, NEW n \in Nat,
         base <= Len(f), \A i \in 1..base : f[i] = i
  PROVE  SubSeq(f, 1, base) \o NextTokens(base, n) = Upto(base + n)
<1> DEFINE kept == SubSeq(f, 1, base)
           acc == NextTokens(base, n)
           p == kept \o acc
<1>1. /\ kept \in Seq(Token) /\ Len(kept) = base
      /\ \A i \in 1..base : kept[i] = i
  <2>1. base \in 0..Len(f)
    BY LenProperties
  <2> QED BY <2>1, PrefixElements
<1>2. /\ acc \in Seq(Token) /\ Len(acc) = n
      /\ \A i \in 1..n : acc[i] = base + i
  <2>1. /\ acc = [i \in 1..n |-> acc[i]] /\ n \in Int /\ n >= 0
        /\ \A i \in 1..n : acc[i] = base + i /\ acc[i] \in Token
    BY DEF Token, NextTokens
  <2> HIDE DEF acc
  <2> QED BY <2>1, FunctionIsSeq
<1> HIDE DEF kept, acc
<1>3. /\ p \in Seq(Token) /\ Len(p) = base + n
      /\ \A i \in 1..base : p[i] = kept[i]
      /\ \A i \in 1..n : p[base + i] = acc[i]
  <2>1. /\ p \in Seq(Token) /\ Len(p) = Len(kept) + Len(acc)
        /\ \A i \in 1..Len(kept) : p[i] = kept[i]
        /\ \A i \in 1..Len(acc) : p[Len(kept) + i] = acc[i]
    BY <1>1, <1>2, ConcatElements
  <2> HIDE DEF p
  <2> QED BY <1>1, <1>2, <2>1
<1> HIDE DEF p
<1>4. ASSUME NEW i \in 1..(base + n) PROVE p[i] = i
  <2>1. CASE i <= base
    BY <1>1, <1>3, <2>1
  <2>2. CASE base < i
    <3>1. i - base \in 1..n /\ base + (i - base) = i
      BY <2>2
    <3> QED BY <1>2, <1>3, <3>1
  <2> QED BY <2>1, <2>2
<1>5. base + n \in Nat
  OBVIOUS
<1>6. p = Upto(base + n)
  BY <1>3, <1>4, <1>5, IsUpto
<1> QED BY <1>6 DEF p, kept, acc

\* Behind the text, its newest token and the first drafts for the next step.
LEMMA BlockIsContext ==
  ASSUME NEW len \in Nat, len >= 1, NEW good \in Nat, NEW d \in Nat, d <= MtpStepNum
  PROVE  Upto(len - 1) \o <<len>> \o SubSeq(Drafts(len, good), 1, d)
           = GoodContext(len, good, d)
<1> DEFINE dr == Drafts(len, good)
           fill == SubSeq(dr, 1, d)
           text == Upto(len - 1) \o <<len>>
           f == text \o fill
           c == GoodContext(len, good, d)
<1>1. /\ fill \in Seq(Token) /\ Len(fill) = d
      /\ \A i \in 1..d : fill[i] = IF i <= good THEN len + i ELSE Wrong
  <2>1. /\ dr \in Seq(Token) /\ Len(dr) = MtpStepNum /\ MtpStepNum \in Nat
        /\ \A i \in 1..MtpStepNum : dr[i] = IF i <= good THEN len + i ELSE Wrong
    BY DraftElements, InferRequestAssumption
  <2> HIDE DEF dr
  <2>2. d \in 0..Len(dr)
    BY <2>1
  <2>3. /\ fill \in Seq(Token) /\ Len(fill) = d
        /\ \A i \in 1..d : fill[i] = dr[i]
    BY <2>1, <2>2, PrefixElements
  <2> HIDE DEF fill
  <2> QED BY <2>1, <2>3
<1>2. /\ text \in Seq(Token) /\ Len(text) = len /\ \A i \in 1..len : text[i] = i
  <2> DEFINE u == Upto(len - 1)
             m == <<len>>
  <2>1. len - 1 \in Nat
    OBVIOUS
  <2>2. u \in Seq(Token) /\ Len(u) = len - 1 /\ \A i \in 1..(len - 1) : u[i] = i
    BY <2>1, UptoElements
  <2>3. m \in Seq(Token) /\ Len(m) = 1 /\ m[1] = len
    BY DEF Token
  <2> HIDE DEF u, m
  <2>4. /\ u \o m \in Seq(Token) /\ Len(u \o m) = Len(u) + Len(m)
        /\ \A i \in 1..Len(u) : (u \o m)[i] = u[i]
        /\ \A i \in 1..Len(m) : (u \o m)[Len(u) + i] = m[i]
    BY <2>2, <2>3, ConcatElements
  <2>5. (u \o m)[len] = len
    <3>1. 1 \in 1..Len(m) /\ Len(u) + 1 = len
      BY <2>2, <2>3
    <3> QED BY <2>3, <2>4, <3>1
  <2>6. \A i \in 1..len : i = len \/ i \in 1..(len - 1)
    OBVIOUS
  <2>7. Len(u \o m) = len
    BY <2>2, <2>3, <2>4
  <2> QED BY <2>2, <2>4, <2>5, <2>6, <2>7 DEF u, m
<1> HIDE DEF fill, text
<1>3. /\ f \in Seq(Token) /\ Len(f) = len + d
      /\ \A i \in 1..len : f[i] = text[i]
      /\ \A i \in 1..d : f[len + i] = fill[i]
  <2>1. /\ f \in Seq(Token) /\ Len(f) = Len(text) + Len(fill)
        /\ \A i \in 1..Len(text) : f[i] = text[i]
        /\ \A i \in 1..Len(fill) : f[Len(text) + i] = fill[i]
    BY <1>1, <1>2, ConcatElements
  <2> HIDE DEF f
  <2> QED BY <1>1, <1>2, <2>1
<1> HIDE DEF f
<1>4. ASSUME NEW i \in 1..(len + d)
      PROVE  f[i] = IF i <= len + good THEN i ELSE Wrong
  <2>1. CASE i <= len
    BY <1>2, <1>3, <2>1
  <2>2. CASE len < i
    <3>1. i - len \in 1..d /\ len + (i - len) = i /\ (i - len <= good <=> i <= len + good)
      BY <2>2
    <3> QED BY <1>1, <1>3, <3>1
  <2> QED BY <2>1, <2>2
<1>5. f = c
  <2>1. f = [i \in 1..(len + d) |-> f[i]]
    BY <1>3, LenProperties
  <2>2. c = [i \in 1..(len + d) |-> c[i]]
    BY DEF GoodContext
  <2>3. \A i \in 1..(len + d) : f[i] = c[i]
    BY <1>4, ContextElements
  <2> HIDE DEF c
  <2> QED BY <2>1, <2>2, <2>3
<1> QED BY <1>5 DEF f, text, fill

\* A decode step s, what the step before it left behind, and the text.
Ready(s, t, base, d, len, good, entry, last, frozen, cached) ==
  /\ DecodeSnap(s, t, base, d)
  /\ DraftsOf(t) \in Nat /\ DraftsOf(t) <= MtpStepNum
  /\ base \in Nat /\ base >= 1 /\ d \in Nat /\ len \in Nat /\ good \in Nat
  /\ LeftBehind(len, good, base, d, entry, frozen, cached)
  /\ \/ last = [pos |-> base - 1, draft |-> d]
     \/ last = NoBlock /\ d = 0

\* The step after repair: the text, and drafts behind it.
RightStep(len, good, d) ==
  [fwd |-> GoodContext(len, good, d), kv |-> len - 1, draft_num |-> d,
   repaired |-> TRUE]

\* Repair turns the snapshot of a decode step into the text, up to the newest
\* token, and the drafts that were proposed for it: wherever the block of the
\* step before it was cut.
LEMMA RepairIsRight ==
  ASSUME NEW s, NEW t, NEW base, NEW d, NEW len, NEW good, NEW entry, NEW last,
         NEW frozen, NEW cached,
         Ready(s, t, base, d, len, good, entry, last, frozen, cached)
  PROVE  Repair(s, entry, last, frozen) = RightStep(len, good, DraftsOf(t))
<1> SUFFICES ASSUME DecodeSnap(s, t, base, d),
                    DraftsOf(t) \in Nat, DraftsOf(t) <= MtpStepNum,
                    base \in Nat, base >= 1, d \in Nat, len \in Nat, good \in Nat,
                    base < len, len <= base + d + 1,
                    entry = [token |-> len,
                             accepted |-> NextTokens(base, len - 1 - base)],
                    \/ last = [pos |-> base - 1, draft |-> d]
                    \/ last = NoBlock /\ d = 0,
                    frozen = Drafts(len, good)
             PROVE  Repair(s, entry, last, frozen) = RightStep(len, good, DraftsOf(t))
  BY DEF Ready, LeftBehind
<1> DEFINE n == DraftsOf(t)
           ph == ResolveLaunchPlaceholderOffset(s)
           old == OldBlock(s, ph, last)
           dr == Drafts(len, good)
           v == len - 1 - base
           prefix == VerifiedPrefix(s.fwd, ph, old, entry.accepted)
           fill == SubSeq(dr, 1, Min2(Len(dr), s.draft_num))
           main == IF old.draft > 0 /\ Len(prefix) > ph THEN Len(prefix) ELSE ph
           rest == SubSeq(s.fwd, main + 2 + s.draft_num, Len(s.fwd))
<1>1. /\ s.fwd \in Seq(Token) /\ Len(s.fwd) = base + d + 1 + n
      /\ \A i \in 1..base : s.fwd[i] = i
      /\ s.kv = base + d /\ s.ph = base + d /\ s.draft_num = n
  BY DEF DecodeSnap
<1>2. ph = base + d /\ ph # NoPlaceholder
  BY <1>1 DEF ResolveLaunchPlaceholderOffset, NoPlaceholder
<1>3. entry # NoEntry
  <2>1. entry.token = len /\ NoEntry.token = -1
    BY DEF NoEntry, kFastPathPlaceholderTokenId
  <2> QED BY <2>1
<1>4. old.draft = d /\ (d > 0 => old.pos = base - 1)
  <2>1. CASE last = NoBlock /\ d = 0
    <3>1. old = [pos |-> s.kv, draft |-> 0]
      BY <2>1 DEF OldBlock
    <3> QED BY <2>1, <3>1
  <2>2. CASE last = [pos |-> base - 1, draft |-> d]
    <3>1. last.pos = base - 1 /\ last.draft = d
      BY <2>2
    <3>2. last # NoBlock
      <4>1. NoBlock.pos = -1 /\ base - 1 # -1
        BY DEF NoBlock
      <4> QED BY <3>1, <4>1
    <3>3. BlockEnd(last) = base + d
      BY <3>1 DEF BlockEnd
    <3>4. old = last
      BY <1>2, <3>2, <3>3 DEF OldBlock
    <3> QED BY <3>1, <3>4
  <2> QED BY <2>1, <2>2
<1> HIDE DEF ph, old
<1>5. v \in Nat /\ base + v = len - 1 /\ entry.accepted = NextTokens(base, v)
  OBVIOUS
<1>6. prefix = Upto(len - 1) /\ Len(prefix) = len - 1
  <2>1. prefix = SubSeq(s.fwd, 1, base) \o entry.accepted
    <3>1. CASE d > 0
      <4>1. old.pos + 1 = base /\ old.draft > 0
        BY <1>4, <3>1
      <4> QED BY <4>1 DEF VerifiedPrefix
    <3>2. CASE ~(d > 0)
      <4>1. ph = base /\ ~(old.draft > 0)
        BY <1>2, <1>4, <3>2
      <4> QED BY <4>1 DEF VerifiedPrefix
    <3> QED BY <3>1, <3>2
  <2>2. base <= Len(s.fwd)
    BY <1>1
  <2>3. SubSeq(s.fwd, 1, base) \o NextTokens(base, v) = Upto(base + v)
    <3> HIDE DEF v
    <3> QED BY <1>1, <1>5, <2>2, PrefixIsText
  <2>4. prefix = Upto(len - 1)
    BY <1>5, <2>1, <2>3
  <2>5. len - 1 \in Nat
    OBVIOUS
  <2> QED BY <2>4, <2>5, UptoElements
<1> HIDE DEF prefix, v
<1>7. fill = SubSeq(dr, 1, n) /\ Len(fill) = n
  <2>1. dr \in Seq(Token) /\ Len(dr) = MtpStepNum /\ MtpStepNum \in Nat
    BY DraftElements, InferRequestAssumption
  <2> HIDE DEF dr, n
  <2>2. Min2(Len(dr), s.draft_num) = n /\ n \in 0..Len(dr)
    BY <1>1, <2>1 DEF Min2, n
  <2> QED BY <2>1, <2>2, PrefixElements
<1>8. main = ph
  <2>1. ~(Len(prefix) > ph)
    BY <1>2, <1>6
  <2> QED BY <2>1
<1>9. rest = <<>>
  <2>1. /\ main + 2 + s.draft_num \in Int /\ Len(s.fwd) \in Int
        /\ Len(s.fwd) < main + 2 + s.draft_num
    BY <1>1, <1>2, <1>8
  <2> HIDE DEF main
  <2> QED BY <2>1, SubSeqEmpty
<1>10. dr # NoDrafts
  <2>1. Len(dr) = MtpStepNum
    BY DraftElements
  <2>2. MtpStepNum # 0
    BY InferRequestAssumption, MtpSerialAssumption
  <2>3. Len(<<>>) = 0
    BY EmptySeq
  <2> HIDE DEF dr
  <2> QED BY <2>1, <2>2, <2>3 DEF NoDrafts
<1>11. ph + s.draft_num < Len(s.fwd)
  BY <1>1, <1>2
<1> HIDE DEF dr, fill, main, rest, n
<1>12. Repair(s, entry, last, dr) = Repaired(s, ph, entry, old, dr)
  BY <1>2, <1>3, <1>10, <1>11 DEF Repair, ph, old
<1>13. Repaired(s, ph, entry, old, dr)
         = [fwd |-> prefix \o <<entry.token>> \o fill \o rest,
            kv |-> Len(prefix), draft_num |-> Len(fill), repaired |-> TRUE]
  BY DEF Repaired, prefix, fill, main, rest
<1>14. prefix \o <<entry.token>> \o fill \o rest = GoodContext(len, good, n)
  <2>1. Upto(len - 1) \o <<len>> \o SubSeq(dr, 1, n) = GoodContext(len, good, n)
    <3>1. len >= 1 /\ n \in Nat /\ n <= MtpStepNum
      BY DEF n
    <3> QED BY <3>1, BlockIsContext DEF dr
  <2>2. GoodContext(len, good, n) \in Seq(Token)
    BY ContextElements DEF n
  <2>3. entry.token = len
    OBVIOUS
  <2>4. GoodContext(len, good, n) \o <<>> = GoodContext(len, good, n)
    BY <2>2, ConcatEmptySeq
  <2> QED BY <1>6, <1>7, <1>9, <2>1, <2>3, <2>4
<1> QED BY <1>6, <1>7, <1>12, <1>13, <1>14 DEF n, dr, RightStep

\* A repaired decode step finds the text in the KV cache as far as it needs it.
LEMMA DecodeContext ==
  ASSUME NEW s, NEW t, NEW base, NEW e, NEW len, NEW good, NEW entry, NEW last,
         NEW frozen, NEW cached,
         Ready(s, t, base, e, len, good, entry, last, frozen, cached)
  PROVE  Context(s, RightStep(len, good, DraftsOf(t)), cached)
           = GoodContext(len, good, DraftsOf(t))
<1> SUFFICES ASSUME s.kind = "decode", len \in Nat, len >= 1, good \in Nat,
                    cached \in Seq(Token), Len(cached) >= len - 1,
                    \A i \in 1..(len - 1) : cached[i] = i,
                    NEW q, NEW d \in Nat, d = DraftsOf(t),
                    q = RightStep(len, good, d)
             PROVE  Context(s, q, cached) = GoodContext(len, good, d)
  BY DEF Ready, DecodeSnap, LeftBehind
<1>0. q.fwd = GoodContext(len, good, d) /\ q.kv = len - 1
  BY DEF RightStep
<1> DEFINE c == GoodContext(len, good, d)
           x == Context(s, q, cached)
<1>1. /\ c \in Seq(Token) /\ Len(c) = len + d /\ Len(cached) \in Nat
      /\ \A i \in 1..(len + d) : c[i] = IF i <= len + good THEN i ELSE Wrong
  <2>1. Len(cached) \in Nat
    BY LenProperties
  <2>2. c \in Seq(Token) /\ Len(c) = len + d
    BY ContextElements
  <2>3. \A i \in 1..(len + d) : c[i] = IF i <= len + good THEN i ELSE Wrong
    BY DEF GoodContext
  <2> QED BY <2>1, <2>2, <2>3
<1>2. c = [i \in 1..(len + d) |-> c[i]]
  BY DEF GoodContext
<1> HIDE DEF c
<1>3. /\ x = [i \in 1..(len + d) |-> x[i]]
      /\ \A i \in 1..(len + d) :
           x[i] = IF i > len - 1 \/ (s.kind # "decode" /\ i > Len(cached)) THEN c[i]
                  ELSE IF i <= Len(cached) THEN cached[i] ELSE Wrong
  BY <1>0, <1>1 DEF Context, c
<1> HIDE DEF x
<1>4. ASSUME NEW i \in 1..(len + d) PROVE x[i] = c[i]
  <2>1. CASE i > len - 1
    BY <1>3, <2>1
  <2>2. CASE ~(i > len - 1)
    <3>1. /\ i \in 1..(len - 1) /\ i <= Len(cached) /\ i <= len + good
          /\ ~(i > len - 1 \/ (s.kind # "decode" /\ i > Len(cached)))
      BY <1>1, <2>2
    <3>2. x[i] = cached[i]
      BY <1>3, <3>1
    <3> QED BY <1>1, <3>1, <3>2
  <2> QED BY <2>1, <2>2
<1> QED BY <1>2, <1>3, <1>4 DEF c, x

-----------------------------------------------------------------------------
(***************************************************************************)
(* One iteration of the Execute thread.                                    *)
(***************************************************************************)

\* The tokens that are kept are right, and the drafts are no placeholders.
ForwardsRight(req, cache) ==
  LET base == Len(req.fwd) - req.draft_num
  IN  /\ IsText(req.fwd, base)
      /\ IsText(cache, base)
      /\ \A i \in DOMAIN req.fwd : req.fwd[i] # kFastPathPlaceholderTokenId

\* A right context is forwarded.
LEMMA RightContext ==
  ASSUME NEW len \in Nat, NEW good \in Nat, NEW d \in Nat, NEW req,
         req.fwd = GoodContext(len, good, d), req.draft_num = d
  PROVE  /\ ForwardsRight(req, GoodContext(len, good, d))
         /\ Len(req.fwd) - req.draft_num = len
<1> DEFINE c == GoodContext(len, good, d)
<1>1. /\ Len(c) = len + d /\ DOMAIN c = 1..(len + d)
      /\ \A i \in 1..(len + d) : c[i] = IF i <= len + good THEN i ELSE Wrong
  <2>1. Len(c) = len + d
    BY ContextElements
  <2>2. /\ DOMAIN c = 1..(len + d)
        /\ \A i \in 1..(len + d) : c[i] = IF i <= len + good THEN i ELSE Wrong
    BY DEF GoodContext
  <2> QED BY <2>1, <2>2
<1>2. req.fwd = c
  OBVIOUS
<1> HIDE DEF c
<1>3. Len(req.fwd) - req.draft_num = len
  BY <1>1, <1>2
<1>4. \A i \in 1..len : c[i] = i
  BY <1>1
<1>5. \A i \in DOMAIN c : c[i] # kFastPathPlaceholderTokenId
  BY <1>1 DEF kFastPathPlaceholderTokenId, Wrong
<1>6. ForwardsRight(req, c)
  BY <1>2, <1>3, <1>4, <1>5 DEF ForwardsRight, IsText
<1> QED BY <1>3, <1>6 DEF c

\* A step that runs on a right context and does not end the text leaves behind
\* what its answer says.
LEMMA VerdictLeaves ==
  ASSUME NEW len \in Nat, NEW good \in Nat, NEW d \in Nat, NEW next, NEW entry,
         len < eos, eos \in Nat, NEW r, r = Verdict(len, good, d, next), r.len # eos
  PROVE  LeftBehind(r.len, next, len, d, RingAfter(entry, r), r.dr,
                    GoodContext(len, good, d))
<1> DEFINE v == Min2(good, d)
           c == GoodContext(len, good, d)
           ring == RingAfter(entry, r)
<1>1. /\ r.len = len + v + 1 /\ r.gen = <<r.len>> /\ r.dr = Drafts(r.len, next)
      /\ r.acc = NextTokens(len, v) /\ v \in Nat /\ v <= good /\ v <= d
  <2> DEFINE z == Verdict(len, good, d, next)
  <2>1. /\ z.dr = Drafts(z.len, next) /\ v \in Nat /\ v <= good /\ v <= d
        /\ z.len # eos => /\ z.len = len + v + 1 /\ z.gen = <<z.len>>
                          /\ z.acc = NextTokens(len, v)
    BY VerdictFields
  <2>2. r = z
    OBVIOUS
  <2> HIDE DEF z, v
  <2> QED BY <2>1, <2>2
<1>2. /\ c \in Seq(Token) /\ Len(c) = len + d
      /\ \A i \in 1..(len + d) : c[i] = IF i <= len + good THEN i ELSE Wrong
  BY ContextElements
<1> HIDE DEF v, c
<1>3. ring = [token |-> r.len, accepted |-> NextTokens(len, r.len - 1 - len)]
  <2>1. r.gen # <<>> /\ r.gen[1] = r.len
    BY <1>1
  <2>2. r.len - 1 - len = v
    BY <1>1
  <2> QED BY <1>1, <2>1, <2>2 DEF RingAfter
<1>4. \A i \in 1..(r.len - 1) : c[i] = i
  <2>1. \A i \in 1..(r.len - 1) : i \in 1..(len + d) /\ i <= len + good
    BY <1>1
  <2> QED BY <1>2, <2>1
<1>5. len < r.len /\ r.len <= len + d + 1
  BY <1>1
<1> HIDE DEF ring
<1>6. LeftBehind(r.len, next, len, d, ring, r.dr, c)
  BY <1>1, <1>2, <1>3, <1>4, <1>5 DEF LeftBehind
<1> QED BY <1>6 DEF ring, c

\* The Execute thread runs a step on a right context and answers r.
RightRun(len, good, d, next, entry, r) ==
  /\ r = Verdict(len, good, d, next)
  /\ results' = Append(results, r)
  /\ host_ring' = RingAfter(entry, r) /\ next_drafts' = r.dr
  /\ kv_cache' = GoodContext(len, good, d)
  /\ exec_req'.fwd = GoodContext(len, good, d) /\ exec_req'.draft_num = d

\* What holds then.
LEMMA RunsRight ==
  ASSUME NEW len \in Nat, NEW good \in Nat, NEW d \in Nat, NEW next, NEW entry,
         NEW r, len < eos, eos \in Nat, RightRun(len, good, d, next, entry, r)
  PROVE  /\ exec_base' = len /\ exec_draft' = d
         /\ ForwardsRight(exec_req', kv_cache')
         /\ r.len # eos => Ran(r.len, next)'
<1> USE DEF RightRun
<1>1. /\ ForwardsRight(exec_req', GoodContext(len, good, d))
      /\ Len(exec_req'.fwd) - exec_req'.draft_num = len
  BY RightContext
<1>2. exec_base' = len /\ exec_draft' = d
  BY <1>1 DEF exec_base, exec_draft
<1>3. r.len # eos => LeftBehind(r.len, next, len, d, RingAfter(entry, r), r.dr,
                                GoodContext(len, good, d))
  BY VerdictLeaves
<1>4. r.len # eos => LeftBehind(r.len, next, exec_base', exec_draft', host_ring',
                                next_drafts', kv_cache')
  BY <1>2, <1>3
<1>5. r.len # eos => Ran(r.len, next)'
  BY <1>4 DEF Ran, LeftBehind
<1> QED BY <1>1, <1>2, <1>5

\* A decode step runs on the text and is answered as the oracle would.
LEMMA ExecuteDecode ==
  ASSUME NEW next \in 0..MtpStepNum, HandleExecute(next), Queue2(dispatched),
         NEW t, NEW len \in Nat, NEW good \in Nat, len < eos, eos \in Nat,
         exec_base \in Nat, exec_base >= 1, exec_draft \in Nat,
         DecodeSnap(dispatched[1], t, exec_base, exec_draft),
         DraftsOf(t) \in Nat, DraftsOf(t) <= MtpStepNum,
         Ran(len, good),
         \/ last_block = [pos |-> exec_base - 1, draft |-> exec_draft]
         \/ last_block = NoBlock /\ exec_draft = 0
  PROVE  \E r : /\ RightRun(len, good, DraftsOf(t), next, host_ring, r)
                /\ last_block' = [pos |-> len - 1, draft |-> DraftsOf(t)]
<1> DEFINE s == dispatched[1]
           n == DraftsOf(t)
           q == Repair(s, host_ring, last_block, next_drafts)
           ctx == Context(s, q, kv_cache)
           c == GoodContext(len, good, n)
           r == Answer(ctx, q.draft_num, next)
           base == exec_base
           d == exec_draft
<1>1. s.kind = "decode" /\ ~s.recompute /\ s = Head(dispatched)
  <2>1. dispatched # <<>>
    BY DEF HandleExecute
  <2> QED BY <2>1, QueuePop DEF DecodeSnap
<1>2. Ready(s, t, base, d, len, good, host_ring, last_block, next_drafts, kv_cache)
  BY DEF Ready, Ran
<1>3. q = RightStep(len, good, n)
  <2> HIDE DEF s, base, d
  <2> QED BY <1>2, RepairIsRight
<1>4. q.fwd = c /\ q.kv = len - 1 /\ q.draft_num = n /\ q.repaired
  BY <1>3 DEF RightStep
<1>5. ctx = c
  <2>1. Context(s, RightStep(len, good, n), kv_cache) = c
    <3> HIDE DEF s, base, d
    <3> QED BY <1>2, DecodeContext
  <2> HIDE DEF q, s, n, c
  <2> QED BY <1>3, <2>1
<1>6. r = Verdict(len, good, n, next)
  <2> HIDE DEF q, ctx, n
  <2> QED BY <1>4, <1>5, AnswerIsVerdict DEF n
<1>7. /\ results' = Append(results, r)
      /\ last_block' = [pos |-> len - 1, draft |-> n]
      /\ kv_cache' = c
      /\ host_ring' = RingAfter(host_ring, r)
      /\ next_drafts' = r.dr
      /\ exec_req'.fwd = c /\ exec_req'.draft_num = n
  <2>1. s.kind # "prefill_chunk_mid"
    BY <1>1
  <2>2. AfterClear(s, host_ring, NoEntry) = host_ring
        /\ AfterClear(s, last_block, NoBlock) = last_block
        /\ AfterClear(s, next_drafts, NoDrafts) = next_drafts
    BY <1>1 DEF AfterClear
  <2> HIDE DEF s
  <2>3. /\ results' = Append(results, r)
        /\ last_block' = [pos |-> q.kv, draft |-> q.draft_num]
        /\ kv_cache' = ctx
        /\ host_ring' = RingAfter(host_ring, r)
        /\ next_drafts' = r.dr
        /\ exec_req' = [fwd |-> q.fwd, kv |-> q.kv, draft_num |-> q.draft_num,
                        draft_tokens |-> r.dr]
    BY <1>1, <1>4, <2>1, <2>2 DEF HandleExecute, Report
  <2> HIDE DEF q, ctx, r
  <2> QED BY <1>4, <1>5, <2>3
<1> HIDE DEF r, q, ctx, c
<1>8. RightRun(len, good, n, next, host_ring, r)
  BY <1>6, <1>7 DEF RightRun, c
<1> HIDE DEF n
<1>9. last_block' = [pos |-> len - 1, draft |-> n]
  BY <1>7
<1> QED BY <1>8, <1>9 DEF n

\* A chunk is not repaired.
LEMMA ChunkUnrepaired ==
  ASSUME NEW s, NEW t, ChunkSnap(s, t), t.len \in Nat, NEW entry, NEW last, NEW frozen
  PROVE  Repair(s, entry, last, frozen)
           = [fwd |-> Upto(t.len), kv |-> s.kv, draft_num |-> 0, repaired |-> FALSE]
<1>1. /\ s.fwd = Upto(t.len) /\ s.draft_num = 0
      /\ s.ph = NoPlaceholder
  BY DEF ChunkSnap
<1>2. FirstPlaceholder(s.fwd) = NoPlaceholder
  <2> DEFINE f == Upto(t.len)
  <2>1. \A i \in DOMAIN f : f[i] # kFastPathPlaceholderTokenId
    BY DEF Upto, kFastPathPlaceholderTokenId
  <2> HIDE DEF f
  <2>2. FirstPlaceholder(f) = NoPlaceholder
    BY <2>1 DEF FirstPlaceholder
  <2> QED BY <1>1, <2>2 DEF f
<1>3. ResolveLaunchPlaceholderOffset(s) = NoPlaceholder
  BY <1>1, <1>2 DEF ResolveLaunchPlaceholderOffset
<1>4. Repair(s, entry, last, frozen)
        = [fwd |-> s.fwd, kv |-> s.kv, draft_num |-> s.draft_num, repaired |-> FALSE]
  BY <1>3 DEF Repair
<1> QED BY <1>1, <1>4

\* Its context is the prompt, whatever of it is cached.
LEMMA ChunkContext ==
  ASSUME NEW s, s.kind # "decode", NEW len \in Nat, NEW cached,
         cached = Upto(Len(cached)), Len(cached) \in Nat, NEW q,
         q.fwd = Upto(len)
  PROVE  Context(s, q, cached) = Upto(len)
<1> DEFINE x == Context(s, q, cached)
           m == Len(cached)
<1>1. Len(Upto(len)) = len /\ \A i \in 1..len : Upto(len)[i] = i
  BY UptoElements
<1>2. m \in Nat /\ \A i \in 1..m : cached[i] = i
  <2>1. \A i \in 1..m : Upto(m)[i] = i
    BY DEF Upto
  <2> QED BY <2>1
<1> HIDE DEF m
<1>3. /\ x = [i \in 1..len |-> x[i]]
      /\ \A i \in 1..len :
           x[i] = IF i > q.kv \/ (s.kind # "decode" /\ i > m) THEN q.fwd[i]
                  ELSE IF i <= m THEN cached[i] ELSE Wrong
  BY <1>1 DEF Context, m
<1> HIDE DEF x
<1>4. ASSUME NEW i \in 1..len PROVE x[i] = i
  <2>1. CASE i > m
    BY <1>1, <1>3, <2>1
  <2>2. CASE i <= m
    BY <1>1, <1>2, <1>3, <2>2
  <2> QED BY <1>2, <2>1, <2>2
<1>5. x = Upto(len)
  BY <1>3, <1>4 DEF Upto
<1> QED BY <1>5 DEF x

\* A chunk runs on the prompt, from nothing or from the chunk before it.
LEMMA ExecuteChunk ==
  ASSUME NEW next, HandleExecute(next), Queue2(dispatched),
         NEW t, t.len \in Nat, ChunkSnap(dispatched[1], t), t.kind # "decode",
         dispatched[1].recompute \/ Fresh
  PROVE  LET len == t.len
             a == IF t.kind = "prefill_chunk_mid" THEN NoAnswer
                  ELSE Answer(Upto(len), 0, next)
         IN  /\ results' = Append(results, a)
             /\ host_ring' = RingAfter(NoEntry, a) /\ last_block' = NoBlock
             /\ next_drafts' = IF t.kind = "prefill_chunk_mid" THEN NoDrafts ELSE a.dr
             /\ kv_cache' = Upto(len)
             /\ exec_req'.fwd = Upto(len) /\ exec_req'.draft_num = 0
<1> DEFINE s == dispatched[1]
           entry == AfterClear(s, host_ring, NoEntry)
           last == AfterClear(s, last_block, NoBlock)
           frozen == AfterClear(s, next_drafts, NoDrafts)
           cached == IF s.recompute THEN <<>> ELSE kv_cache
           q == Repair(s, entry, last, frozen)
           ctx == Context(s, q, cached)
           mid == t.kind = "prefill_chunk_mid"
           a == IF mid THEN NoAnswer ELSE Answer(Upto(t.len), 0, next)
<1>1. s = Head(dispatched) /\ s.kind = t.kind
  <2>1. dispatched # <<>>
    BY DEF HandleExecute
  <2> QED BY <2>1, QueuePop DEF ChunkSnap
<1>2. /\ entry = NoEntry /\ last = NoBlock /\ frozen = NoDrafts
      /\ cached = Upto(Len(cached)) /\ Len(cached) \in Nat
  <2>1. CASE s.recompute
    <3>1. Len(<<>>) = 0 /\ <<>> = Upto(0)
      BY EmptySeq DEF Upto
    <3>2. cached = <<>>
      BY <2>1
    <3>3. cached = Upto(Len(cached)) /\ Len(cached) \in Nat
      <4> HIDE DEF cached
      <4> QED BY <3>1, <3>2
    <3> QED BY <2>1, <3>3 DEF AfterClear
  <2>2. CASE ~s.recompute
    <3>1. cached = kv_cache
      BY <2>2
    <3>2. entry = host_ring /\ last = last_block /\ frozen = next_drafts
      BY <2>2 DEF AfterClear
    <3> HIDE DEF cached, entry, last, frozen
    <3> QED BY <2>2, <3>1, <3>2 DEF Fresh, IsFresh
  <2> QED BY <2>1, <2>2
<1>3. q.fwd = Upto(t.len) /\ q.draft_num = 0 /\ ~q.repaired
  <2> HIDE DEF s, entry, last, frozen
  <2>1. q = [fwd |-> Upto(t.len), kv |-> s.kv, draft_num |-> 0, repaired |-> FALSE]
    BY ChunkUnrepaired DEF s
  <2> HIDE DEF q
  <2> QED BY <2>1
<1>4. ctx = Upto(t.len)
  <2> HIDE DEF s, q, cached
  <2>1. s.kind # "decode"
    BY <1>1
  <2> QED BY <1>2, <1>3, <2>1, ChunkContext
<1>5. /\ results' = Append(results, IF mid THEN NoAnswer
                                    ELSE Answer(ctx, q.draft_num, next))
      /\ last_block' = last /\ kv_cache' = ctx
      /\ host_ring' = RingAfter(entry, IF mid THEN NoAnswer
                                       ELSE Answer(ctx, q.draft_num, next))
      /\ next_drafts' = IF ~mid THEN Answer(ctx, q.draft_num, next).dr ELSE frozen
      /\ exec_req'.fwd = q.fwd /\ exec_req'.draft_num = q.draft_num
  <2>1. s.kind = "prefill_chunk_mid" <=> mid
    BY <1>1
  <2> HIDE DEF mid
  <2> QED BY <1>1, <1>3, <2>1 DEF HandleExecute, Report
<1>6. a = IF mid THEN NoAnswer ELSE Answer(ctx, q.draft_num, next)
  <2> HIDE DEF ctx, q, mid
  <2> QED BY <1>3, <1>4
<1>7. next_drafts' = IF mid THEN NoDrafts ELSE a.dr
  <2> HIDE DEF ctx, q, mid, a, frozen
  <2> QED BY <1>2, <1>5, <1>6
<1> HIDE DEF ctx, q, mid, a, frozen, entry, last
<1>8. /\ results' = Append(results, a) /\ host_ring' = RingAfter(NoEntry, a)
      /\ last_block' = NoBlock
      /\ kv_cache' = Upto(t.len)
      /\ exec_req'.fwd = Upto(t.len) /\ exec_req'.draft_num = 0
  BY <1>2, <1>3, <1>4, <1>5, <1>6
<1> QED BY <1>7, <1>8 DEF a, mid

\* A chunk in the middle of the prompt: its state is as fresh as before.
LEMMA ExecuteMid ==
  ASSUME NEW next, HandleExecute(next), Queue2(dispatched),
         NEW t, t.len \in Nat, ChunkSnap(dispatched[1], t),
         t.kind = "prefill_chunk_mid", dispatched[1].recompute \/ Fresh
  PROVE  /\ results' = Append(results, NoAnswer) /\ Fresh'
         /\ ForwardsRight(exec_req', kv_cache')
<1>1. /\ results' = Append(results, NoAnswer)
      /\ host_ring' = RingAfter(NoEntry, NoAnswer) /\ last_block' = NoBlock
      /\ next_drafts' = NoDrafts /\ kv_cache' = Upto(t.len)
      /\ exec_req'.fwd = Upto(t.len) /\ exec_req'.draft_num = 0
  BY ExecuteChunk
<1>2. host_ring' = NoEntry
  BY <1>1 DEF RingAfter, NoAnswer
<1>3. Len(Upto(t.len)) = t.len
  BY UptoElements
<1>4. Fresh'
  BY <1>1, <1>2, <1>3 DEF Fresh, IsFresh
<1>5. ForwardsRight(exec_req', kv_cache')
  <2>1. /\ exec_req'.fwd = GoodContext(t.len, 0, 0) /\ exec_req'.draft_num = 0
        /\ kv_cache' = GoodContext(t.len, 0, 0)
    BY <1>1, ContextIsText
  <2> QED BY <2>1, RightContext
<1> QED BY <1>1, <1>4, <1>5

\* The last chunk: the first step that samples.
LEMMA ExecutePrompt ==
  ASSUME NEW next, HandleExecute(next), Queue2(dispatched),
         NEW t, NEW len \in Nat, t.len = len, ChunkSnap(dispatched[1], t),
         t.kind = "prefill", dispatched[1].recompute \/ Fresh, NEW good \in Nat
  PROVE  \E r : RightRun(len, good, 0, next, NoEntry, r) /\ last_block' = NoBlock
<1> DEFINE r == Answer(Upto(len), 0, next)
<1>1. /\ results' = Append(results, r)
      /\ host_ring' = RingAfter(NoEntry, r) /\ last_block' = NoBlock
      /\ next_drafts' = r.dr /\ kv_cache' = Upto(len)
      /\ exec_req'.fwd = Upto(len) /\ exec_req'.draft_num = 0
  BY ExecuteChunk
<1>2. GoodContext(len, good, 0) = Upto(len)
  BY ContextIsText
<1>3. r = Verdict(len, good, 0, next)
  BY <1>2, AnswerIsVerdict
<1> HIDE DEF r
<1>4. RightRun(len, good, 0, next, NoEntry, r)
  BY <1>1, <1>2, <1>3 DEF RightRun
<1> QED BY <1>1, <1>4

-----------------------------------------------------------------------------
(***************************************************************************)
(* What the shapes say of the steps in flight.                             *)
(***************************************************************************)

\* Before the text has ended: at most two steps, the second of which decodes
\* just if the first one samples; and the last chunk forwards the whole text.
LEMMA InFlightKinds ==
  ASSUME TextInv, ~is_eos_generated, HasInflightTask, FastPath, NoBubbles
  PROVE  /\ Len(inflight_tasks) \in {1, 2}
         /\ inflight_tasks[1].kind = "decode" <=> infer_stage = "decode"
         /\ Len(inflight_tasks) = 2 =>
              (inflight_tasks[2].kind = "decode" <=> Samples(inflight_tasks[1]))
         /\ \A i \in 1..Len(inflight_tasks) :
              LET t == inflight_tasks[i]
              IN  /\ t \in InflightTask
                  /\ MidStep(t) \/ LastStep(t) \/ DecodeStep(t)
                  /\ LastStep(t) => t.len = exec_len
         /\ exec_len \in Nat /\ exec_good \in Nat /\ eos \in Nat /\ exec_len < eos
         /\ exec_len >= 1
<1> DEFINE k == Len(inflight_tasks)
<1>1. /\ inflight_tasks \in Seq(InflightTask) /\ k \in Nat /\ k <= max_depth
      /\ exec_len \in Nat /\ exec_good \in Nat /\ eos \in Nat
      /\ out \in Nat /\ Len(prefilling_tokens) \in Nat
  BY StateTypes, StateNumbers DEF TextInv, PartInv, out
<1>2. exec_len = out /\ out < eos /\ out >= 1
  <2>1. out <= eos /\ out # eos /\ exec_len = out /\ out > 0
    BY DEF TextInv, OutputInv, OutputIsText, out
  <2> QED BY <1>1, <2>1
<1>3. k \in {1, 2}
  <2>1. max_depth = 2
    BY MtpSerialAssumption DEF max_depth, kMaxInflightDepth
  <2>2. k # 0
    BY <1>1, EmptySeq DEF HasInflightTask
  <2>3. k \in Nat /\ k <= 2
    BY <1>1, <2>1
  <2> HIDE DEF k
  <2> QED BY <2>2, <2>3
<1>4. \A i \in 1..k : inflight_tasks[i] \in InflightTask
  BY <1>1
<1>5. ChunksTile
  BY DEF TextInv, PartInv
<1>6. ASSUME NEW i \in 1..k, LastStep(inflight_tasks[i]), prefilling_tokens = output_tokens
      PROVE  inflight_tasks[i].len = out
  BY <1>1, <1>5, <1>6 DEF ChunksTile, LastStep, IsChunk, out
<1>7. ShapeInv /\ (Prompting \/ FirstAhead \/ OneStep \/ TwoSteps \/ Drained)
  BY DEF TextInv, ShapeInv
<1>8. CASE Prompting
  <2>1. \A i \in 1..k : MidStep(inflight_tasks[i]) \/ LastStep(inflight_tasks[i])
    BY <1>8 DEF Prompting
  <2>2. infer_stage = "context" /\ prefilling_tokens = output_tokens
    BY <1>8 DEF Prompting
  <2>3. ASSUME k = 2 PROVE ~LastStep(inflight_tasks[1])
    <3> SUFFICES ASSUME LastStep(inflight_tasks[1]) PROVE FALSE
      OBVIOUS
    <3>1. 2 \in 1..k /\ 2 > 1 /\ 2 - 1 = 1
      BY <2>3
    <3> DEFINE t == inflight_tasks[1]
               u == inflight_tasks[2]
    <3>2. ChunkEnd(t.workload) = Len(prefilling_tokens)
      BY DEF LastStep
    <3>3. IsChunk(u.workload) /\ ChunkEnd(u.workload) <= Len(prefilling_tokens)
      <4>1. MidStep(u) \/ LastStep(u)
        BY <2>1, <3>1
      <4>2. ChunkEnd(u.workload) \in Nat
        BY <1>4, <3>1, StepFields
      <4> QED BY <1>1, <4>1, <4>2 DEF MidStep, LastStep
    <3>4. u.workload.prefill_start_offset = ChunkEnd(t.workload)
      BY <1>5, <3>1, <3>3 DEF ChunksTile
    <3>5. u.workload.prefill_start_offset \in Nat /\ u.workload.prefill_token_num \in Nat
      BY <1>4, <3>1, StepFields
    <3> QED BY <1>1, <3>2, <3>3, <3>4, <3>5 DEF ChunkEnd, IsChunk
  <2>4. 1 \in 1..k /\ (k = 2 => 2 \in 1..k)
    BY <1>3
  <2>5. inflight_tasks[1].kind # "decode"
    BY <2>1, <2>4 DEF MidStep, LastStep
  <2>6. k = 2 => inflight_tasks[2].kind # "decode" /\ ~Samples(inflight_tasks[1])
    BY <2>1, <2>3, <2>4 DEF MidStep, LastStep, Samples
  <2> QED BY <1>1, <1>2, <1>3, <1>4, <1>6, <2>1, <2>2, <2>5, <2>6
<1>9. CASE FirstAhead
  <2>1. /\ infer_stage = "context" /\ prefilling_tokens = output_tokens
        /\ k = 2 /\ LastStep(inflight_tasks[1]) /\ DecodeStep(inflight_tasks[2])
    BY <1>9 DEF FirstAhead
  <2>2. \A i \in 1..k : i = 1 \/ i = 2
    BY <2>1
  <2>3. inflight_tasks[1].kind # "decode" /\ inflight_tasks[2].kind = "decode"
        /\ Samples(inflight_tasks[1])
    BY <2>1 DEF LastStep, DecodeStep, Samples
  <2> QED BY <1>1, <1>2, <1>3, <1>4, <1>6, <2>1, <2>2, <2>3
<1>10. CASE OneStep \/ TwoSteps
  <2>1. /\ infer_stage = "decode" /\ DecodeStep(inflight_tasks[1])
        /\ k = 2 => DecodeStep(inflight_tasks[2])
    BY <1>10 DEF OneStep, TwoSteps
  <2>2. \A i \in 1..k : DecodeStep(inflight_tasks[i])
    BY <1>3, <2>1
  <2>3. \A i \in 1..k : inflight_tasks[i].kind = "decode" /\ ~LastStep(inflight_tasks[i])
                        /\ Samples(inflight_tasks[i])
    <3> SUFFICES ASSUME NEW i \in 1..k
                 PROVE  /\ inflight_tasks[i].kind = "decode"
                        /\ ~LastStep(inflight_tasks[i])
                        /\ Samples(inflight_tasks[i])
      OBVIOUS
    <3>1. inflight_tasks[i].workload.draft_token_num \in Nat
      BY <1>4, StepFields
    <3> DEFINE t == inflight_tasks[i]
    <3>2. DecodeStep(t)
      BY <2>2
    <3> HIDE DEF t
    <3>3. t.kind = "decode" /\ t.sampling_token_num = 1 + t.workload.draft_token_num
      BY <3>2 DEF DecodeStep
    <3>4. t.kind = "decode" /\ ~LastStep(t) /\ Samples(t)
      BY <3>1, <3>3 DEF LastStep, Samples, t
    <3> QED BY <3>4 DEF t
  <2>4. 1 \in 1..k /\ (k = 2 => 2 \in 1..k)
    BY <1>3
  <2> QED BY <1>1, <1>2, <1>3, <1>4, <2>1, <2>2, <2>3, <2>4
<1>11. CASE Drained
  BY <1>11 DEF Drained, HasInflightTask
<1> QED BY <1>7, <1>8, <1>9, <1>10, <1>11

-----------------------------------------------------------------------------
(***************************************************************************)
(* The Execute thread preserves the invariant.                             *)
(***************************************************************************)

\* The text behind the last step that ran, as long as it has not ended.
LEMMA RanNumbers ==
  ASSUME TextInv, ~is_eos_generated, HasInflightTask, FastPath, NoBubbles,
         Queue2(results), answered < 2, answered <= Len(inflight_tasks),
         AnswersInv, ~HasEnded
  PROVE  /\ ran_len \in Nat /\ ran_len >= 1 /\ ran_len < eos /\ ran_good \in Nat
         /\ answered = 0 => ran_len = exec_len /\ ran_good = exec_good
         /\ answered = 1 => /\ ran_len = LenAfter(1, exec_len)
                            /\ ran_good = GoodAfter(1, exec_good)
<1>1. /\ exec_len \in Nat /\ exec_good \in Nat /\ eos \in Nat /\ exec_len < eos
      /\ exec_len >= 1
  BY InFlightKinds
<1>2. answered \in {0, 1}
  BY QueueLen DEF answered
<1>3. CASE answered = 0
  BY <1>1, <1>3 DEF ran_len, ran_good
<1>4. CASE answered = 1
  <2> DEFINE t == inflight_tasks[1]
             r == results[1]
  <2>1. ran_len = LenAfter(1, exec_len) /\ ran_good = GoodAfter(1, exec_good)
    BY <1>4 DEF ran_len, ran_good
  <2>2. r.len # eos
    BY <1>4 DEF HasEnded
  <2>3. RightAnswer(r, t, exec_len, exec_good)
    BY <1>4 DEF AnswersInv
  <2>4. CASE Samples(t)
    <3>1. ran_len = r.len /\ ran_good = r.good
      BY <2>1, <2>4 DEF LenAfter, GoodAfter
    <3>2. PICK next \in 0..MtpStepNum : r = Verdict(exec_len, exec_good, DraftsOf(t), next)
      BY <2>3, <2>4 DEF RightAnswer
    <3>3. t \in InflightTask
      <4>1. 1 \in 1..Len(inflight_tasks)
        BY <1>4, InFlightKinds
      <4> QED BY <4>1, InFlightKinds
    <3>4. DraftsOf(t) \in Nat
      BY <3>3, StepFields DEF DraftsOf
    <3> DEFINE z == Verdict(exec_len, exec_good, DraftsOf(t), next)
    <3>5. z.len \in Nat /\ exec_len < z.len /\ z.len <= eos /\ z.good = next
      BY <1>1, <3>4, VerdictFields
    <3>6. r = z
      BY <3>2
    <3> HIDE DEF r, z
    <3>7. next \in Nat
      OBVIOUS
    <3> QED BY <1>1, <1>4, <2>1, <2>2, <3>1, <3>5, <3>6, <3>7
  <2>5. CASE ~Samples(t)
    <3>1. ran_len = exec_len /\ ran_good = exec_good
      BY <2>1, <2>5 DEF LenAfter, GoodAfter
    <3> QED BY <1>1, <1>4, <2>1, <3>1
  <2> QED BY <2>4, <2>5
<1> QED BY <1>2, <1>3, <1>4

\* What one iteration of the Execute thread does before the text has ended.
StepRan(t, len, good, r) ==
  /\ results' = Append(results, r)
  /\ ForwardsRight(exec_req', kv_cache')
  /\ RightAnswer(r, t, len, good)
  /\ IF Samples(t)
       THEN /\ exec_base' = len /\ exec_draft' = DraftsOf(t)
            /\ r.len # eos => Ran(r.len, r.good)'
            /\ last_block' = IF t.kind = "decode"
                               THEN [pos |-> len - 1, draft |-> DraftsOf(t)]
                               ELSE NoBlock
       ELSE Fresh'

\* A step that ran on a right context did so.
LEMMA RightRunRan ==
  ASSUME NEW t, Samples(t), NEW len \in Nat, NEW good \in Nat,
         NEW next \in 0..MtpStepNum, NEW entry, NEW r, len < eos, eos \in Nat,
         DraftsOf(t) \in Nat, RightRun(len, good, DraftsOf(t), next, entry, r),
         last_block' = IF t.kind = "decode"
                         THEN [pos |-> len - 1, draft |-> DraftsOf(t)] ELSE NoBlock
  PROVE  StepRan(t, len, good, r)
<1> DEFINE d == DraftsOf(t)
<1>1. /\ exec_base' = len /\ exec_draft' = d
      /\ ForwardsRight(exec_req', kv_cache')
      /\ r.len # eos => Ran(r.len, next)'
  BY RunsRight
<1>2. r = Verdict(len, good, d, next) /\ results' = Append(results, r)
  BY DEF RightRun
<1>3. r.good = next
  BY <1>2 DEF Verdict
<1>4. RightAnswer(r, t, len, good)
  BY <1>2 DEF RightAnswer
<1>5. r.len # eos => Ran(r.len, r.good)'
  BY <1>1, <1>3
<1> HIDE DEF d
<1> QED BY <1>1, <1>2, <1>4, <1>5 DEF StepRan, d

\* How two steps in flight can be distributed.
LEMMA TwoQueues ==
  ASSUME NEW k \in {0, 1, 2}, NEW a \in {0, 1, 2}, NEW b \in {0, 1, 2}, k = a + b
  PROVE  b # 0 => /\ a \in {0, 1} /\ b \in {1, 2} /\ a + 1 \in 1..k
                  /\ k \in {1, 2} /\ a + 1 <= k
                  /\ a = 1 => b = 1
                  /\ b - 1 # 2
                  /\ a = 0 => b = k
OBVIOUS

\* The queues while the request is not finished.
LEMMA QueueNumbers ==
  ASSUME QueueInv, Len(inflight_tasks) \in {0, 1, 2}
  PROVE  /\ answered \in {0, 1, 2} /\ Len(dispatched) \in {0, 1, 2}
         /\ Len(inflight_tasks) = answered + Len(dispatched)
         /\ dispatched = <<>> <=> Len(dispatched) = 0
         /\ dispatched # <<>> => /\ answered \in {0, 1}
                                 /\ answered + 1 <= Len(inflight_tasks)
                                 /\ inflight_tasks # <<>>
<1>1. /\ Len(results) \in {0, 1, 2} /\ Len(dispatched) \in {0, 1, 2}
      /\ dispatched = <<>> <=> Len(dispatched) = 0
  BY QueueLen DEF QueueInv
<1>2. Len(inflight_tasks) = answered + Len(dispatched)
  BY DEF QueueInv
<1>3. Len(<<>>) = 0
  BY EmptySeq
<1>4. Len(dispatched) # 0 => /\ answered \in {0, 1} /\ answered + 1 <= Len(inflight_tasks)
                             /\ Len(inflight_tasks) \in {1, 2}
  BY <1>1, <1>2, TwoQueues DEF answered
<1>5. Len(inflight_tasks) \in {1, 2} => inflight_tasks # <<>>
  BY <1>3
<1> QED BY <1>1, <1>2, <1>4, <1>5 DEF answered

\* Whether the step that the Execute thread takes next decodes.
LEMMA NextDecodes ==
  ASSUME TextInv, ~is_eos_generated, FastPath, NoBubbles, QueueInv, dispatched # <<>>
  PROVE  LET t == NextTask
         IN  /\ HasInflightTask /\ Len(inflight_tasks) \in {1, 2}
             /\ answered \in {0, 1} /\ answered + 1 \in 1..Len(inflight_tasks)
             /\ t \in InflightTask /\ DraftsOf(t) \in Nat /\ DraftsOf(t) <= MtpStepNum
             /\ t.len \in Nat
             /\ MidStep(t) \/ LastStep(t) \/ DecodeStep(t)
             /\ t.kind = "decode" <=> HasRun
<1> DEFINE k == Len(inflight_tasks)
           t == NextTask
<1>1. HasInflightTask
  <2>1. Len(dispatched) # 0 /\ Len(results) \in Nat /\ Len(dispatched) \in Nat
    BY QueueLen DEF QueueInv
  <2>2. Len(inflight_tasks) # 0
    BY <2>1 DEF QueueInv, answered
  <2> QED BY <2>2, SomeTask
<1>2. k \in {1, 2}
  BY <1>1, InFlightKinds
<1>3. answered \in {0, 1} /\ answered + 1 \in 1..k
  <2>1. k \in {0, 1, 2}
    BY <1>2
  <2>2. answered \in {0, 1} /\ answered + 1 <= k
    BY <2>1, QueueNumbers
  <2> HIDE DEF k
  <2> QED BY <1>2, <2>2
<1>4. t \in InflightTask /\ (MidStep(t) \/ LastStep(t) \/ DecodeStep(t))
  BY <1>1, <1>3, InFlightKinds DEF NextTask
<1>5. DraftsOf(t) \in Nat /\ DraftsOf(t) <= MtpStepNum /\ t.len \in Nat
  <2> HIDE DEF t
  <2>1. MtpStepNum \in Nat
    BY InferRequestAssumption
  <2>2. DraftsOf(t) \in Nat /\ t.len \in Nat
    BY <1>4, StepFields DEF DraftsOf
  <2>3. DraftsOf(t) = 0 \/ DraftsOf(t) <= MtpStepNum
    BY <1>4 DEF DraftsOf, MidStep, LastStep, DecodeStep, OneDecode
  <2> QED BY <2>1, <2>2, <2>3
<1>6. t.kind = "decode" <=> HasRun
  <2>1. inflight_tasks[1].kind = "decode" <=> infer_stage = "decode"
    BY <1>1, InFlightKinds
  <2>2. CASE answered = 0
    <3>1. t = inflight_tasks[1] /\ ~\E i \in 1..answered : TRUE
      BY <2>2 DEF NextTask
    <3> QED BY <2>1, <3>1 DEF HasRun
  <2>3. CASE answered = 1
    <3>1. t = inflight_tasks[2] /\ k = 2
      <4>1. answered + 1 = 2
        BY <2>3
      <4>2. k = 2
        <5> HIDE DEF k
        <5> QED BY <1>2, <1>3, <4>1
      <4> QED BY <4>1, <4>2 DEF NextTask
    <3>2. inflight_tasks[2].kind = "decode" <=> Samples(inflight_tasks[1])
      BY <1>1, <3>1, InFlightKinds
    <3>3. HasRun <=> infer_stage = "decode" \/ Samples(inflight_tasks[1])
      BY <2>3 DEF HasRun
    <3>4. infer_stage = "decode" => Samples(inflight_tasks[1])
      <4>1. 1 \in 1..k /\ inflight_tasks[1] \in InflightTask
        BY <1>1, <1>2, InFlightKinds
      <4>2. \/ MidStep(inflight_tasks[1]) \/ LastStep(inflight_tasks[1])
            \/ DecodeStep(inflight_tasks[1])
        BY <1>1, <4>1, InFlightKinds
      <4> DEFINE u == inflight_tasks[1]
      <4> HIDE DEF u
      <4>3. u.workload.draft_token_num \in Nat
        BY <4>1, StepFields DEF u
      <4>4. u.kind = "decode" => u.sampling_token_num = 1 + u.workload.draft_token_num
        BY <4>2 DEF MidStep, LastStep, DecodeStep, u
      <4>5. u.kind = "decode" => Samples(u)
        BY <4>3, <4>4 DEF Samples
      <4> QED BY <2>1, <4>5 DEF u
    <3> QED BY <3>1, <3>2, <3>3, <3>4
  <2> QED BY <1>3, <2>2, <2>3
<1> QED BY <1>1, <1>2, <1>3, <1>4, <1>5, <1>6

\* One iteration of the Execute thread, before the text has ended.
LEMMA ExecuteStep ==
  ASSUME SerialInv, ~is_eos_generated, FastPath, NoBubbles, ~HasEnded,
         NEW next \in 0..MtpStepNum, HandleExecute(next)
  PROVE  \E r : StepRan(NextTask, ran_len, ran_good, r)
<1> DEFINE t == NextTask
           s == dispatched[1]
<1>1. /\ dispatched # <<>> /\ TextInv /\ QueueInv /\ AnswersInv /\ NextSnap /\ RanInv
      /\ Queue2(dispatched) /\ Queue2(results)
      /\ recompute_ids => inflight_tasks = <<>>
  BY DEF HandleExecute, SerialInv, PathInv, SnapInv, QueueInv
<1>2. /\ HasInflightTask /\ Len(inflight_tasks) \in {1, 2}
      /\ answered \in {0, 1} /\ answered + 1 \in 1..Len(inflight_tasks)
      /\ t \in InflightTask /\ DraftsOf(t) \in Nat /\ DraftsOf(t) <= MtpStepNum
      /\ t.len \in Nat
      /\ MidStep(t) \/ LastStep(t) \/ DecodeStep(t)
      /\ t.kind = "decode" <=> HasRun
  BY <1>1, NextDecodes
<1>3. /\ ran_len \in Nat /\ ran_len >= 1 /\ ran_len < eos /\ ran_good \in Nat
      /\ answered = 0 => ran_len = exec_len
      /\ answered = 1 => ran_len = LenAfter(1, exec_len)
      /\ eos \in Nat
  <2>1. answered < 2 /\ answered <= Len(inflight_tasks)
    BY <1>2
  <2>2. eos \in Nat
    BY <1>1, <1>2, InFlightKinds
  <2> QED BY <1>1, <1>2, <2>1, <2>2, RanNumbers
<1>4. ~EndedEarlier
  BY <1>2 DEF EndedEarlier
<1>5. CASE t.kind = "decode"
  <2>1. /\ exec_base \in Nat /\ exec_base >= 1 /\ exec_draft \in Nat
        /\ \/ last_block = [pos |-> exec_base - 1, draft |-> exec_draft]
           \/ last_block = NoBlock /\ exec_draft = 0
        /\ Ran(ran_len, ran_good)
    BY <1>1, <1>2, <1>4, <1>5 DEF RanInv
  <2>2. DecodeSnap(s, t, exec_base, exec_draft)
    BY <1>1, <1>5 DEF NextSnap
  <2>3. \E r : /\ RightRun(ran_len, ran_good, DraftsOf(t), next, host_ring, r)
               /\ last_block' = [pos |-> ran_len - 1, draft |-> DraftsOf(t)]
    <3> HIDE DEF t
    <3> QED BY <1>1, <1>2, <1>3, <2>1, <2>2, ExecuteDecode
  <2>4. Samples(t)
    <3> HIDE DEF t
    <3> QED BY <1>2, <1>5 DEF DecodeStep, MidStep, LastStep, Samples, DraftsOf
  <2> HIDE DEF t
  <2>5. PICK r : /\ RightRun(ran_len, ran_good, DraftsOf(t), next, host_ring, r)
                 /\ last_block' = [pos |-> ran_len - 1, draft |-> DraftsOf(t)]
    BY <2>3
  <2>6. StepRan(t, ran_len, ran_good, r)
    BY <1>2, <1>3, <1>5, <2>4, <2>5, RightRunRan
  <2> QED BY <2>6 DEF t
<1>6. CASE t.kind # "decode"
  <2>1. ChunkSnap(s, t)
    BY <1>1, <1>6 DEF NextSnap
  <2>2. s.recompute \/ Fresh
    BY <1>1, <1>2, <1>6 DEF RanInv, Stale, HasInflightTask
  <2>3. CASE MidStep(t)
    <3> HIDE DEF t
    <3>1. t.kind = "prefill_chunk_mid" /\ ~Samples(t)
      BY <2>3 DEF MidStep, Samples
    <3>2. /\ results' = Append(results, NoAnswer) /\ Fresh'
          /\ ForwardsRight(exec_req', kv_cache')
      BY <1>1, <1>2, <2>1, <2>2, <3>1, ExecuteMid
    <3>3. StepRan(t, ran_len, ran_good, NoAnswer)
      BY <3>1, <3>2 DEF StepRan, RightAnswer
    <3> QED BY <3>3 DEF t
  <2>4. CASE LastStep(t)
    <3>1. ~Samples(inflight_tasks[1]) \/ answered = 0
      BY <1>2, <1>6 DEF HasRun
    <3>2. ran_len = exec_len
      BY <1>2, <1>3, <3>1 DEF LenAfter
    <3>3. t.len = ran_len
      BY <1>1, <1>2, <2>4, <3>2, InFlightKinds DEF NextTask
    <3> HIDE DEF t
    <3>4. t.kind = "prefill" /\ Samples(t) /\ DraftsOf(t) = 0
      BY <2>4 DEF LastStep, Samples, DraftsOf
    <3>5. \E r : /\ RightRun(ran_len, ran_good, 0, next, NoEntry, r)
                 /\ last_block' = NoBlock
      BY <1>1, <1>2, <1>3, <2>1, <2>2, <3>3, <3>4, ExecutePrompt
    <3>6. PICK r : /\ RightRun(ran_len, ran_good, 0, next, NoEntry, r)
                   /\ last_block' = NoBlock
      BY <3>5
    <3>7. StepRan(t, ran_len, ran_good, r)
      BY <1>2, <1>3, <1>6, <3>4, <3>6, RightRunRan
    <3> QED BY <3>7 DEF t
  <2>5. ~DecodeStep(t)
    BY <1>6 DEF DecodeStep
  <2> QED BY <1>2, <2>3, <2>4, <2>5
<1> QED BY <1>5, <1>6

\* Which steps sample.
LEMMA KindsSample ==
  ASSUME NEW t \in InflightTask, MidStep(t) \/ LastStep(t) \/ DecodeStep(t)
  PROVE  /\ t.kind = "decode" => Samples(t) /\ DecodeStep(t)
         /\ t.kind # "decode" /\ Samples(t) => LastStep(t)
         /\ ~DecodeStep(t) => DraftsOf(t) = 0
         /\ LastStep(t) => Samples(t) /\ t.kind = "prefill"
         /\ DraftsOf(t) \in Nat
<1>1. t.workload.draft_token_num \in Nat
  BY StepFields
<1>2. CASE DecodeStep(t)
  <2>1. t.kind = "decode" /\ t.sampling_token_num = 1 + t.workload.draft_token_num
    BY <1>2 DEF DecodeStep
  <2>2. Samples(t)
    BY <1>1, <2>1 DEF Samples
  <2>3. ~LastStep(t)
    BY <2>1 DEF LastStep
  <2> QED BY <1>1, <1>2, <2>1, <2>2, <2>3 DEF DraftsOf
<1>3. CASE MidStep(t)
  <2>1. t.kind = "prefill_chunk_mid" /\ ~Samples(t) /\ DraftsOf(t) = 0
    BY <1>3 DEF MidStep, Samples, DraftsOf
  <2>2. ~LastStep(t) /\ t.kind # "decode"
    BY <2>1 DEF LastStep
  <2> QED BY <2>1, <2>2
<1>4. CASE LastStep(t)
  <2>1. t.kind = "prefill" /\ Samples(t) /\ DraftsOf(t) = 0
    BY <1>4 DEF LastStep, Samples, DraftsOf
  <2> QED BY <1>4, <2>1
<1> QED BY <1>2, <1>3, <1>4

\* The state after an iteration of the Execute thread, before the text has ended.
LEMMA ExecuteQueues ==
  ASSUME QueueInv, Len(inflight_tasks) \in {0, 1, 2}, NEW next, HandleExecute(next),
         NEW x, results' = Append(results, x)
  PROVE  /\ answered \in {0, 1} /\ answered' = answered + 1
         /\ results'[answered + 1] = x
         /\ answered = 1 => results'[1] = results[1] /\ dispatched' = <<>>
         /\ dispatched # <<>> /\ QueueInv'
         /\ answered = 0 /\ dispatched' # <<>>
              => Len(dispatched) = 2 /\ dispatched'[1] = dispatched[2]
         /\ Len(dispatched') # 2
         /\ UNCHANGED <<vars, recompute_ids>>
<1>1. /\ dispatched # <<>> /\ dispatched' = Tail(dispatched)
      /\ UNCHANGED <<vars, recompute_ids>>
  BY DEF HandleExecute
<1>4. /\ answered \in {0, 1} /\ Len(dispatched) \in {1, 2}
      /\ Len(inflight_tasks) = answered + Len(dispatched)
      /\ answered = 1 => Len(dispatched) = 1
  <2>1. /\ answered \in {0, 1, 2} /\ Len(dispatched) \in {0, 1, 2}
        /\ Len(inflight_tasks) = answered + Len(dispatched)
        /\ Len(dispatched) # 0
    BY <1>1, QueueNumbers
  <2> QED BY <2>1, TwoQueues
<1>5. /\ Queue2(results') /\ Len(results') = answered + 1
      /\ results'[answered + 1] = x
      /\ answered = 1 => results'[1] = results[1]
  <2>1. Queue2(results) /\ Len(results) # 2
    BY <1>4 DEF QueueInv, answered
  <2> QED BY <2>1, QueuePush DEF answered
<1>6. /\ Queue2(dispatched') /\ Len(dispatched') = Len(dispatched) - 1
      /\ Len(dispatched) = 1 => dispatched' = <<>>
      /\ Len(dispatched) = 2 => dispatched'[1] = dispatched[2]
  <2>1. Queue2(dispatched)
    BY DEF QueueInv
  <2> QED BY <1>1, <2>1, QueuePop
<1>7. inflight_tasks' = inflight_tasks
  BY <1>1 DEF vars, request, pipeline
<1>8. answered' = answered + 1
  BY <1>5 DEF answered
<1>9. QueueInv'
  BY <1>4, <1>5, <1>6, <1>7, <1>8 DEF QueueInv
<1>10. answered = 0 /\ dispatched' # <<>> => Len(dispatched) = 2
  BY <1>4, <1>6
<1>11. Len(dispatched') # 2
  <2> DEFINE m == Len(dispatched)
  <2>1. m \in {1, 2} /\ Len(dispatched') = m - 1
    BY <1>4, <1>6
  <2> HIDE DEF m
  <2> QED BY <2>1
<1> QED BY <1>1, <1>4, <1>5, <1>6, <1>8, <1>9, <1>10, <1>11

\* The first answer on its way.
LEMMA ExecuteFirst ==
  ASSUME SerialInv, ~is_eos_generated, FastPath, NoBubbles, ~HasEnded, answered = 0,
         NEW next \in 0..MtpStepNum, HandleExecute(next),
         NEW r, StepRan(NextTask, ran_len, ran_good, r)
  PROVE  PathInv'
<1> DEFINE t == inflight_tasks[1]
           u == inflight_tasks[2]
<1>1. /\ TextInv /\ QueueInv /\ dispatched # <<>>
      /\ SnapInv
      /\ recompute_ids => inflight_tasks = <<>>
  BY DEF HandleExecute, SerialInv, PathInv
<1>2. /\ HasInflightTask /\ Len(inflight_tasks) \in {1, 2} /\ t = NextTask
      /\ t \in InflightTask
      /\ MidStep(t) \/ LastStep(t) \/ DecodeStep(t)
      /\ t.kind = "decode" <=> HasRun
  <2>1. NextTask = t
    BY DEF NextTask
  <2> QED BY <1>1, <2>1, NextDecodes
<1>3. /\ answered' = 1 /\ results'[1] = r
      /\ dispatched' # <<>> => /\ Len(dispatched) = 2
                               /\ dispatched'[1] = dispatched[2]
      /\ Len(dispatched') # 2
      /\ UNCHANGED <<vars, recompute_ids>>
  <2>1. Len(inflight_tasks) \in {0, 1, 2}
    BY <1>2
  <2>2. results' = Append(results, r)
    BY DEF StepRan
  <2>3. answered + 1 = 1
    OBVIOUS
  <2> QED BY <1>1, <2>1, <2>2, <2>3, ExecuteQueues
<1>4. UNCHANGED <<inflight_tasks, infer_stage, exec_len, exec_good, eos,
                  is_eos_generated, recompute_ids>>
  BY <1>3 DEF vars, request, pipeline, executor
<1>5. /\ ran_len = exec_len /\ ran_good = exec_good
      /\ exec_len \in Nat /\ exec_len >= 1 /\ exec_good \in Nat
  <2>1. ran_len = exec_len /\ ran_good = exec_good
    BY DEF ran_len, ran_good
  <2> QED BY <1>1, <1>2, <2>1, InFlightKinds
<1>6. StepRan(t, exec_len, exec_good, r)
  BY <1>2, <1>5
<1>7. /\ t.kind = "decode" => Samples(t) /\ DecodeStep(t)
      /\ t.kind # "decode" /\ Samples(t) => LastStep(t)
      /\ ~DecodeStep(t) => DraftsOf(t) = 0
      /\ DraftsOf(t) \in Nat
  <2> HIDE DEF t
  <2> QED BY <1>2, KindsSample
<1>8. HasRun' <=> Samples(t)
  <2>1. HasRun => Samples(t)
    BY <1>2, <1>7
  <2>2. HasRun' <=> infer_stage = "decode" \/ Samples(t)
    BY <1>3, <1>4 DEF HasRun
  <2>3. infer_stage = "decode" => HasRun
    BY DEF HasRun
  <2> QED BY <2>1, <2>2, <2>3
<1>9. AnswersInv'
  <2>1. RightAnswer(r, t, exec_len, exec_good)
    BY <1>6 DEF StepRan
  <2>2. RightAnswer(results[1], inflight_tasks[1], exec_len, exec_good)'
    BY <1>3, <1>4, <2>1 DEF RightAnswer, Verdict
  <2> QED BY <1>3, <2>2 DEF AnswersInv
<1>10. ~EndedEarlier' /\ (HasEnded' <=> r.len = eos)
  BY <1>3, <1>4 DEF EndedEarlier, HasEnded
<1>11. RanInv'
  <2>1. CASE Samples(t)
    <3>1. /\ exec_base' = exec_len /\ exec_draft' = DraftsOf(t)
          /\ r.len # eos => Ran(r.len, r.good)'
          /\ last_block' = IF t.kind = "decode"
                             THEN [pos |-> exec_len - 1, draft |-> DraftsOf(t)]
                             ELSE NoBlock
      BY <1>6, <2>1 DEF StepRan
    <3>2. ran_len' = r.len /\ ran_good' = r.good
      BY <1>3, <1>4, <2>1 DEF ran_len, ran_good, LenAfter, GoodAfter
    <3>3. ~HasEnded' => Ran(ran_len, ran_good)'
      <4>1. Ran(r.len, r.good)' => Ran(ran_len, ran_good)'
        BY <3>2 DEF Ran
      <4> QED BY <1>10, <3>1, <4>1
    <3>4. RanLast(1, exec_len)'
      BY <1>4, <3>1 DEF RanLast
    <3>5. \/ last_block' = [pos |-> exec_base' - 1, draft |-> exec_draft']
          \/ last_block' = NoBlock /\ exec_draft' = 0
      BY <1>7, <3>1 DEF LastStep, DecodeStep
    <3>6. exec_base' \in Nat /\ exec_base' >= 1 /\ exec_draft' \in Nat
      BY <1>5, <1>7, <3>1
    <3> QED BY <1>3, <1>4, <1>8, <2>1, <3>3, <3>4, <3>5, <3>6 DEF RanInv
  <2>2. CASE ~Samples(t)
    BY <1>6, <1>8, <2>2 DEF RanInv, StepRan
  <2> QED BY <2>1, <2>2
<1>12. SnapInv'
  <2>1. ASSUME dispatched' # <<>> PROVE NextSnap'
    <3>1. SecondSnap /\ dispatched'[1] = dispatched[2] /\ Len(dispatched) = 2
      BY <1>1, <1>3, <2>1 DEF SnapInv
    <3>2. NextTask' = u
      BY <1>3, <1>4 DEF NextTask
    <3>3. CASE u.kind = "decode"
      <4>1. Len(inflight_tasks) = 2
        BY <1>1, <3>1 DEF QueueInv
      <4>2. Samples(t)
        BY <1>1, <1>2, <3>3, <4>1, InFlightKinds
      <4>3. exec_base' = exec_len /\ exec_draft' = DraftsOf(t)
        BY <1>6, <4>2 DEF StepRan
      <4>4. DecodeSnap(dispatched[2], u, exec_len, DraftsOf(t))
        BY <3>1, <3>3 DEF SecondSnap
      <4> QED BY <3>1, <3>2, <3>3, <4>3, <4>4 DEF NextSnap, DecodeSnap
    <3>4. CASE u.kind # "decode"
      <4>1. ChunkSnap(dispatched[2], u)
        BY <3>1, <3>4 DEF SecondSnap
      <4> QED BY <3>1, <3>2, <3>4, <4>1 DEF NextSnap, ChunkSnap
    <3> QED BY <3>3, <3>4
  <2> QED BY <1>3, <2>1 DEF SnapInv
<1> QED BY <1>1, <1>4, <1>9, <1>11, <1>12 DEF PathInv

\* The second one.
LEMMA ExecuteSecond ==
  ASSUME SerialInv, ~is_eos_generated, FastPath, NoBubbles, ~HasEnded, answered = 1,
         NEW next \in 0..MtpStepNum, HandleExecute(next),
         NEW r, StepRan(NextTask, ran_len, ran_good, r)
  PROVE  PathInv'
<1> DEFINE t == inflight_tasks[1]
           u == inflight_tasks[2]
           len == LenAfter(1, exec_len)
           good == GoodAfter(1, exec_good)
<1>1. /\ TextInv /\ QueueInv /\ dispatched # <<>> /\ Queue2(results)
      /\ AnswersInv
      /\ recompute_ids => inflight_tasks = <<>>
  BY DEF HandleExecute, SerialInv, PathInv, QueueInv
<1>2. /\ HasInflightTask /\ Len(inflight_tasks) \in {1, 2} /\ u = NextTask
      /\ u \in InflightTask
      /\ MidStep(u) \/ LastStep(u) \/ DecodeStep(u)
      /\ u.kind = "decode" <=> HasRun
      /\ answered + 1 \in 1..Len(inflight_tasks)
  <2>1. NextTask = u
    BY DEF NextTask
  <2> QED BY <1>1, <2>1, NextDecodes
<1>3. /\ answered' = 2 /\ results'[1] = results[1] /\ results'[2] = r
      /\ dispatched' = <<>>
      /\ UNCHANGED <<vars, recompute_ids>>
  <2>1. Len(inflight_tasks) \in {0, 1, 2}
    BY <1>2
  <2>2. results' = Append(results, r)
    BY DEF StepRan
  <2>3. answered + 1 = 2
    OBVIOUS
  <2> QED BY <1>1, <2>1, <2>2, <2>3, ExecuteQueues
<1>4. UNCHANGED <<inflight_tasks, infer_stage, exec_len, exec_good, eos,
                  is_eos_generated, recompute_ids>>
  BY <1>3 DEF vars, request, pipeline, executor
<1>5. ran_len = len /\ ran_good = good /\ ran_len \in Nat /\ ran_len >= 1
  <2>1. answered < 2 /\ answered <= Len(inflight_tasks)
    BY <1>2
  <2> QED BY <1>1, <1>2, <2>1, RanNumbers
<1>6. StepRan(u, len, good, r)
  BY <1>2, <1>5
<1>7. /\ u.kind = "decode" => Samples(u) /\ DecodeStep(u)
      /\ ~DecodeStep(u) => DraftsOf(u) = 0
      /\ DraftsOf(u) \in Nat
  <2> HIDE DEF u
  <2> QED BY <1>2, KindsSample
<1>8. len = LenAfter(1, exec_len)' /\ good = GoodAfter(1, exec_good)'
  BY <1>3, <1>4 DEF LenAfter, GoodAfter
<1>9. /\ HasRun' <=> HasRun \/ Samples(u)
      /\ HasRun => Samples(u)
  <2>1. HasRun' <=> infer_stage = "decode" \/ Samples(t) \/ Samples(u)
    BY <1>3, <1>4 DEF HasRun
  <2>2. HasRun <=> infer_stage = "decode" \/ Samples(t)
    BY DEF HasRun
  <2> QED BY <1>2, <1>7, <2>1, <2>2
<1>10. results[1].len # eos
  BY DEF HasEnded
<1>11. ~EndedEarlier' /\ (HasEnded' <=> r.len = eos)
  BY <1>3, <1>4, <1>10 DEF EndedEarlier, HasEnded
<1> HIDE DEF len, good
<1>12. AnswersInv'
  <2>1. RightAnswer(results[1], t, exec_len, exec_good)
    BY <1>1 DEF AnswersInv
  <2>2. RightAnswer(results[1], inflight_tasks[1], exec_len, exec_good)'
    BY <1>3, <1>4, <2>1 DEF RightAnswer, Verdict
  <2>3. RightAnswer(r, u, len, good)
    BY <1>6 DEF StepRan
  <2>4. RightAnswer(results[2], inflight_tasks[2], LenAfter(1, exec_len),
                    GoodAfter(1, exec_good))'
    BY <1>3, <1>4, <1>8, <2>3 DEF RightAnswer, Verdict
  <2> QED BY <2>2, <2>4 DEF AnswersInv
<1>13. RanInv'
  <2>1. CASE Samples(u)
    <3>1. /\ exec_base' = len /\ exec_draft' = DraftsOf(u)
          /\ r.len # eos => Ran(r.len, r.good)'
          /\ last_block' = IF u.kind = "decode"
                             THEN [pos |-> len - 1, draft |-> DraftsOf(u)]
                             ELSE NoBlock
      BY <1>6, <2>1 DEF StepRan
    <3>2. ran_len' = r.len /\ ran_good' = r.good
      BY <1>3, <1>4, <2>1 DEF ran_len, ran_good, LenAfter, GoodAfter
    <3>3. ~HasEnded' => Ran(ran_len, ran_good)'
      <4>1. Ran(r.len, r.good)' => Ran(ran_len, ran_good)'
        BY <3>2 DEF Ran
      <4> QED BY <1>11, <3>1, <4>1
    <3>4. RanLast(2, LenAfter(1, exec_len))'
      BY <1>4, <1>8, <3>1 DEF RanLast
    <3>5. \/ last_block' = [pos |-> exec_base' - 1, draft |-> exec_draft']
          \/ last_block' = NoBlock /\ exec_draft' = 0
      BY <1>7, <3>1 DEF LastStep, DecodeStep
    <3>6. exec_base' \in Nat /\ exec_base' >= 1 /\ exec_draft' \in Nat
      BY <1>5, <1>7, <3>1
    <3> QED BY <1>3, <1>4, <1>9, <2>1, <3>3, <3>4, <3>5, <3>6 DEF RanInv
  <2>2. CASE ~Samples(u)
    BY <1>6, <1>9, <2>2 DEF RanInv, StepRan
  <2> QED BY <2>1, <2>2
<1>14. SnapInv'
  <2>1. Len(<<>>) = 0
    BY EmptySeq
  <2> QED BY <1>3, <2>1 DEF SnapInv
<1> QED BY <1>1, <1>4, <1>12, <1>13, <1>14 DEF PathInv

\* A step behind an answer that ends the text: whatever it does is forgotten.
LEMMA ExecuteBehindEnd ==
  ASSUME SerialInv, ~is_eos_generated, FastPath, NoBubbles, HasEnded,
         NEW next \in 0..MtpStepNum, HandleExecute(next)
  PROVE  QueueInv' /\ PathInv' /\ ExecutorForwardsText'
<1> DEFINE t == inflight_tasks[1]
<1>1. /\ TextInv /\ QueueInv /\ dispatched # <<>> /\ Queue2(results)
      /\ AnswersInv
      /\ recompute_ids => inflight_tasks = <<>>
  BY DEF HandleExecute, SerialInv, PathInv, QueueInv
<1>2. /\ HasInflightTask /\ Len(inflight_tasks) \in {1, 2} /\ answered \in {0, 1}
  BY <1>1, NextDecodes
<1>3. answered = 1 /\ results[1].len = eos
  BY <1>2 DEF HasEnded
<1>4. \E x : results' = Append(results, x)
  BY DEF HandleExecute, Report
<1>5. PICK x : results' = Append(results, x)
  BY <1>4
<1>6. /\ answered' = 2 /\ results'[1] = results[1] /\ dispatched' = <<>> /\ QueueInv'
      /\ UNCHANGED <<vars, recompute_ids>>
  <2>1. Len(inflight_tasks) \in {0, 1, 2}
    BY <1>2
  <2>2. answered + 1 = 2
    BY <1>3
  <2> QED BY <1>1, <1>3, <1>5, <2>1, <2>2, ExecuteQueues
<1>7. UNCHANGED <<inflight_tasks, infer_stage, exec_len, exec_good, eos,
                  is_eos_generated, recompute_ids>>
  BY <1>6 DEF vars, request, pipeline, executor
<1>8. RightAnswer(results[1], t, exec_len, exec_good)
  BY <1>1, <1>3 DEF AnswersInv
<1>9. EndedEarlier'
  BY <1>3, <1>6, <1>7 DEF EndedEarlier
<1>10. Samples(t)
  <2>1. eos \in Nat /\ exec_len \in Nat /\ exec_len < eos
    BY <1>1, <1>2, InFlightKinds
  <2>2. NoAnswer.len = 0
    BY DEF NoAnswer
  <2> QED BY <1>3, <1>8, <2>1, <2>2 DEF RightAnswer
<1>11. HasRun'
  BY <1>6, <1>7, <1>10 DEF HasRun
<1>12. AnswersInv'
  <2>1. RightAnswer(results[1], inflight_tasks[1], exec_len, exec_good)'
    BY <1>6, <1>7, <1>8 DEF RightAnswer, Verdict
  <2> QED BY <1>9, <2>1 DEF AnswersInv
<1>13. SnapInv'
  <2>1. Len(<<>>) = 0
    BY EmptySeq
  <2> QED BY <1>6, <2>1 DEF SnapInv
<1>14. RanInv'
  BY <1>9, <1>11 DEF RanInv
<1>15. PathInv'
  BY <1>1, <1>7, <1>12, <1>13, <1>14 DEF PathInv
<1>16. ExecutorForwardsText'
  <2>1. TextHadEnded'
    <3>1. Len(results') = 2 /\ results'[1].len = eos'
      BY <1>3, <1>6, <1>7 DEF answered
    <3>2. 1 \in 1..(Len(results') - 1)
      BY <3>1
    <3> QED BY <3>1, <3>2 DEF TextHadEnded
  <2> QED BY <2>1 DEF ExecutorForwardsText
<1> QED BY <1>6, <1>15, <1>16

\* One iteration of the Execute thread preserves the invariant.
LEMMA ExecuteInv ==
  ASSUME SerialInv, FastPath, NoBubbles, TextInv',
         NEW next \in 0..MtpStepNum, HandleExecute(next)
  PROVE  SerialInv'
<1>1. /\ TextInv /\ QueueInv /\ dispatched # <<>>
  BY DEF HandleExecute, SerialInv
<1>2. \E x : results' = Append(results, x)
  BY DEF HandleExecute, Report
<1>3. CASE is_eos_generated
  <2>1. is_eos_generated'
    BY <1>3 DEF HandleExecute, vars, request, pipeline
  <2>2. QueueInv'
    <3>1. Len(inflight_tasks) \in {0, 1, 2}
      <4>1. ShapeInv
        BY <1>1 DEF TextInv
      <4>2. inflight_tasks = <<>> \/ Len(inflight_tasks) = 1
        BY <1>3, <4>1 DEF ShapeInv, Ended
      <4> QED BY <4>2, EmptySeq
    <3> QED BY <1>1, <1>2, <3>1, ExecuteQueues
  <2> QED BY <2>1, <2>2 DEF SerialInv, PathInv, ExecutorForwardsText, TextHadEnded
<1>4. CASE ~is_eos_generated /\ HasEnded
  BY <1>4, ExecuteBehindEnd DEF SerialInv
<1>5. CASE ~is_eos_generated /\ ~HasEnded
  <2>1. PICK r : StepRan(NextTask, ran_len, ran_good, r)
    BY <1>5, ExecuteStep
  <2>2. results' = Append(results, r) /\ ForwardsRight(exec_req', kv_cache')
    BY <2>1 DEF StepRan
  <2>3. answered \in {0, 1} /\ Len(inflight_tasks) \in {0, 1, 2}
    BY <1>1, <1>5, NextDecodes
  <2>4. PathInv'
    BY <1>5, <2>1, <2>3, ExecuteFirst, ExecuteSecond
  <2>5. QueueInv'
    BY <1>1, <2>2, <2>3, ExecuteQueues
  <2>6. ExecutorForwardsText'
    BY <2>2 DEF ExecutorForwardsText, ForwardsRight
  <2> QED BY <2>4, <2>5, <2>6 DEF SerialInv
<1> QED BY <1>3, <1>4, <1>5

-----------------------------------------------------------------------------
(***************************************************************************)
(* A launch preserves the invariant.                                       *)
(***************************************************************************)

\* The snapshot that a launch takes.
Snapshot ==
  [kind |-> Last(inflight_tasks').kind,
   fwd |-> forwarding_tokens',
   kv |-> kv_cached_token_num',
   draft_num |-> forwarding_tokens_draft_num',
   ph |-> LaunchPlaceholderOffset,
   recompute |-> recompute_ids]

\* A decode step launched ahead: its snapshot holds the text up to the drafts of
\* the step before it, and behind them its own block.
LEMMA AheadState ==
  ASSUME TextInv', (FirstAhead \/ TwoSteps)', FastPath
  PROVE  LET end == out' + DraftsOf(inflight_tasks'[1])
             t == inflight_tasks'[2]
         IN  /\ Len(inflight_tasks') = 2 /\ t.kind = "decode" /\ t \in InflightTask
             /\ kv_cached_token_num' = end
             /\ pending_placeholders' # <<>> /\ Last(pending_placeholders').pos = end
             /\ forwarding_tokens' \in Seq(Token)
             /\ Len(forwarding_tokens') = end + 1 + DraftsOf(t)
             /\ \A i \in 1..out' : forwarding_tokens'[i] = i
<1> DEFINE s == inflight_tasks'[1]
           t == inflight_tasks'[2]
           end == out' + DraftsOf(s)
<1>1. /\ inflight_tasks' \in Seq(InflightTask) /\ forwarding_tokens' \in Seq(Token)
      /\ out' \in Nat /\ exec_good' \in Nat
  BY DEF TextInv, PartInv, LayoutInv, TypeInv, TypeOK, TokensTyped, QueuesTyped,
         ScalarsTyped, out
<1> DEFINE n == out'
           S == inflight_tasks'
<1>a. Len(S) = 2 => S[1] \in InflightTask /\ S[2] \in InflightTask
  <2>1. S \in Seq(InflightTask)
    BY <1>1
  <2> HIDE DEF S
  <2> QED BY <2>1
<1>b. n \in Nat
  BY <1>1
<1> HIDE DEF S
<1>2. CASE FirstAhead'
  <2>1. /\ Len(inflight_tasks') = 2 /\ LastStep(inflight_tasks[1])'
        /\ DecodeStep(inflight_tasks[2])'
        /\ pending_placeholders' = <<BlockOf(t, out')>>
        /\ kv_cached_token_num' = out' /\ fwd' = out' + 1 + DraftsOf(t)
        /\ ForwardsText(out)'
    BY <1>2 DEF FirstAhead, DraftsOf, BlockOf
  <2>2. DraftsOf(s) = 0
    BY <2>1 DEF LastStep, DraftsOf
  <2>3. t.kind = "decode"
    BY <2>1 DEF DecodeStep
  <2>4. Last(pending_placeholders').pos = out' /\ pending_placeholders' # <<>>
    BY <2>1 DEF Last, BlockOf
  <2>5. \A i \in 1..out' : forwarding_tokens'[i] = i
    BY <2>1 DEF ForwardsText
  <2>6. t \in InflightTask
    BY <1>a, <2>1 DEF S
  <2>7. end = out'
    <3>1. n + 0 = n
      <4> HIDE DEF n
      <4> QED BY <1>b
    <3> QED BY <2>2, <3>1
  <2> HIDE DEF s, t, end
  <2> QED BY <1>1, <2>1, <2>3, <2>4, <2>5, <2>6, <2>7 DEF fwd, s, t, end
<1>3. CASE TwoSteps'
  <2>1. /\ Len(inflight_tasks') = 2 /\ DecodeStep(inflight_tasks[1])'
        /\ DecodeStep(inflight_tasks[2])'
        /\ pending_placeholders' = <<BlockOf(s, out' - 1), BlockOf(t, end)>>
        /\ kv_cached_token_num' = end /\ fwd' = end + 1 + DraftsOf(t)
        /\ \A i \in 1..end : forwarding_tokens'[i]
                               = IF i <= out' + exec_good' THEN i ELSE Wrong
    BY <1>3 DEF TwoSteps, DraftsOf, BlockOf, IsTextAndDrafts
  <2>2. t.kind = "decode"
    BY <2>1 DEF DecodeStep
  <2>3. Last(pending_placeholders').pos = end /\ pending_placeholders' # <<>>
    BY <2>1 DEF Last, BlockOf
  <2>4. s \in InflightTask /\ t \in InflightTask
    BY <1>a, <2>1 DEF S
  <2>5. DraftsOf(s) \in Nat
    BY <2>4, StepFields DEF DraftsOf
  <2>6. \A i \in 1..out' : i \in 1..end /\ i <= out' + exec_good'
    <3> DEFINE d == DraftsOf(s)
               g == exec_good'
    <3>1. g \in Nat /\ d \in Nat
      BY <1>1, <2>5
    <3> HIDE DEF n, d, g
    <3>2. \A i \in 1..n : i \in 1..(n + d) /\ i <= n + g
      BY <1>b, <3>1
    <3> QED BY <3>2 DEF n, d, g
  <2>7. \A i \in 1..out' : forwarding_tokens'[i] = i
    BY <2>1, <2>6
  <2> HIDE DEF s, t, end
  <2> QED BY <1>1, <2>1, <2>2, <2>3, <2>4, <2>7 DEF fwd, s, t, end
<1> QED BY <1>2, <1>3

\* A launch appends one step to at most one.
LEMMA LaunchAppends ==
  ASSUME TextInv, LaunchPlanningTask, FastPath, NoBubbles
  PROVE  /\ Len(inflight_tasks) \in {0, 1} /\ ~is_eos_generated
         /\ Prompting \/ OneStep
         /\ LaunchPrefill \/ ReserveBuildAheadPlaceholderBlock
         /\ Len(inflight_tasks') = Len(inflight_tasks) + 1
         /\ \A i \in 1..Len(inflight_tasks) : inflight_tasks'[i] = inflight_tasks[i]
         /\ Last(inflight_tasks') = NewStep
         /\ UNCHANGED <<infer_stage, is_eos_generated, eos, exec_len, exec_good,
                        output_tokens>>
<1> DEFINE k == Len(inflight_tasks)
<1>1. /\ PartInv /\ WorkInv /\ OutputInv /\ ShapeInv /\ inflight_tasks \in Seq(InflightTask)
      /\ k \in Nat
  BY StateTypes, StateNumbers DEF TextInv, PartInv
<1>2. /\ ~is_eos_generated /\ ~is_stopped /\ HasInflightCapacity
      /\ UNCHANGED <<infer_stage, is_eos_generated, eos, exec_len, exec_good,
                     output_tokens>>
  <2>1. /\ ~is_eos_generated /\ ~is_stopped /\ HasInflightCapacity
        /\ UNCHANGED <<infer_stage, eos, exec_len, exec_good, output_tokens>>
    BY <1>1, LaunchKeeps
  <2>2. UNCHANGED is_eos_generated
    BY DEF LaunchPlanningTask
  <2> QED BY <2>1, <2>2
<1>3. k < 2
  BY <1>2, MtpSerialAssumption DEF HasInflightCapacity, max_depth, kMaxInflightDepth
<1>4. k \in {0, 1}
  <2> HIDE DEF k
  <2> QED BY <1>1, <1>3
<1>5. Prompting \/ OneStep
  <2>1. Prompting \/ FirstAhead \/ OneStep \/ TwoSteps \/ Drained
    BY <1>1, <1>2 DEF ShapeInv
  <2>2. ~FirstAhead /\ ~TwoSteps
    BY <1>4 DEF FirstAhead, TwoSteps
  <2>3. ~Drained
    BY <1>2 DEF Drained
  <2> QED BY <2>1, <2>2, <2>3
<1>6. LaunchPrefill \/ ReserveBuildAheadPlaceholderBlock
  <2>1. ASSUME planning_task.workload.prefill_token_num = 0,
               AppendDecodeTokensWithoutPlaceholder
        PROVE  FALSE
    <3>1. PromptLaunched
      BY <1>1, <2>1, DecodeLaunch
    <3>2. generated_tokens = <<>> /\ HasInflightTask
      <4>1. CASE Prompting
        BY <3>1, <4>1 DEF Prompting, HasInflightTask
      <4>2. CASE OneStep
        <5>1. Len(inflight_tasks) # 0 /\ generated_tokens = <<>>
          BY <4>2 DEF OneStep
        <5> QED BY <5>1, SomeTask
      <4> QED BY <1>5, <4>1, <4>2
    <3> QED BY <2>1, <3>2 DEF AppendDecodeTokensWithoutPlaceholder
  <2> QED BY <2>1 DEF LaunchPlanningTask
<1>7. inflight_tasks' = Append(inflight_tasks, NewStep)
  <2>1. CASE LaunchPrefill
    BY <1>1, <1>2, <2>1, LaunchPrefillEffect
  <2>2. CASE ReserveBuildAheadPlaceholderBlock
    BY <1>1, <1>2, <2>2, ReserveEffect
  <2> QED BY <1>6, <2>1, <2>2
<1>8. NewStep \in InflightTask
  <2>1. CASE LaunchPrefill
    BY <1>1, <1>2, <2>1, LaunchPrefillEffect
  <2>2. CASE ReserveBuildAheadPlaceholderBlock
    BY <1>1, <1>2, <2>2, ReserveEffect
  <2> QED BY <1>6, <2>1, <2>2
<1>9. /\ Len(inflight_tasks') = k + 1 /\ inflight_tasks'[k + 1] = NewStep
      /\ \A i \in 1..k : inflight_tasks'[i] = inflight_tasks[i]
  <2> DEFINE x == NewStep
  <2>1. inflight_tasks' = Append(inflight_tasks, x) /\ x \in InflightTask
    BY <1>7, <1>8
  <2> HIDE DEF x
  <2>2. /\ Len(inflight_tasks') = k + 1 /\ inflight_tasks'[k + 1] = x
        /\ \A i \in 1..k : inflight_tasks'[i] = inflight_tasks[i]
    BY <1>1, <2>1, AppendElements
  <2> QED BY <2>2 DEF x
<1>10. Last(inflight_tasks') = NewStep
  BY <1>9 DEF Last
<1> QED BY <1>2, <1>4, <1>5, <1>6, <1>9, <1>10

\* The snapshot of a chunk is the prompt up to its end.
LEMMA ChunkSnapshot ==
  ASSUME TextInv, TextInv', LaunchPlanningTask, LaunchPrefill, FastPath, NoBubbles
  PROVE  ChunkSnap(Snapshot, NewStep) /\ NewStep.kind # "decode"
<1>1. /\ PartInv /\ OutputInv /\ Prompting /\ HasInflightCapacity
  <2>1. ~OneStep
    BY DEF LaunchPrefill, OneStep, PromptLaunched, IsChunk
  <2> QED BY <2>1, LaunchAppends, LaunchKeeps DEF TextInv
<1>2. Prompting'
  BY <1>1, ShapeLaunchPrefill
<1>3. draft_tokens = <<>> /\ pending_placeholders = <<>> /\ Len(<<>>) = 0
  BY <1>1, EmptySeq DEF Prompting
<1> DEFINE t == NewStep
           w == planning_task.workload
           end == ChunkEnd(w)
           n == Len(IF end = Len(prefilling_tokens) THEN draft_tokens ELSE <<>>)
<1>4. n = 0
  BY <1>3
<1>5. /\ t.kind = IF end = Len(prefilling_tokens) THEN "prefill" ELSE "prefill_chunk_mid"
      /\ t.len = end + n /\ Len(forwarding_tokens') = end + n
      /\ forwarding_tokens_draft_num' = n /\ pending_placeholders' = pending_placeholders
  <2> HIDE DEF t
  <2> QED BY <1>1, LaunchPrefillEffect DEF t
<1> HIDE DEF n, end, t
<1>6. forwarding_tokens' = Upto(t.len)
  <2>1. forwarding_tokens' \in Seq(Token) /\ \A i \in 1..fwd' : forwarding_tokens'[i] = i
    BY <1>2 DEF Prompting, ForwardsText, TextInv, PartInv, LayoutInv, TypeInv, TypeOK,
                TokensTyped
  <2> DEFINE f == forwarding_tokens'
  <2>2. f \in Seq(Token) /\ \A i \in 1..Len(f) : f[i] = i
    BY <2>1 DEF fwd
  <2>3. Len(f) = t.len
    BY <1>5
  <2> HIDE DEF f
  <2>4. f = Upto(Len(f))
    BY <2>2, IsUpto
  <2> QED BY <2>3, <2>4 DEF f
<1>7. LaunchPlaceholderOffset = NoPlaceholder
  BY <1>3, <1>5 DEF LaunchPlaceholderOffset
<1>8. Last(inflight_tasks') = t
  BY LaunchAppends DEF t
<1>9. /\ Snapshot.kind = t.kind /\ Snapshot.fwd = forwarding_tokens'
      /\ Snapshot.draft_num = 0 /\ Snapshot.ph = NoPlaceholder
  BY <1>4, <1>5, <1>7, <1>8 DEF Snapshot
<1>10. t.kind # "decode"
  BY <1>5
<1> QED BY <1>6, <1>9, <1>10 DEF ChunkSnap, t

\* The snapshot of a decode step is the text up to the drafts of the step before
\* it.
LEMMA DecodeSnapshot ==
  ASSUME TextInv, TextInv', LaunchPlanningTask, FastPath, NoBubbles,
         planning_task.workload.prefill_token_num = 0,
         ReserveBuildAheadPlaceholderBlock, ~recompute_ids
  PROVE  /\ Len(inflight_tasks) = 1 /\ NewStep.kind = "decode"
         /\ DecodeSnap(Snapshot, NewStep, exec_len, DraftsOf(inflight_tasks[1]))
<1>1. /\ PartInv /\ WorkInv /\ OutputInv
      /\ Prompting \/ OneStep
      /\ HasInflightCapacity
  BY LaunchAppends, LaunchKeeps DEF TextInv
<1>2. (FirstAhead \/ TwoSteps)'
  BY <1>1, ShapeReserve
<1>3. HasInflightTask
  BY DEF ReserveBuildAheadPlaceholderBlock
<1>4. Len(inflight_tasks) = 1 /\ inflight_tasks'[1] = inflight_tasks[1]
      /\ Last(inflight_tasks') = inflight_tasks'[2] /\ NewStep = inflight_tasks'[2]
      /\ exec_len = out'
  <2>1. /\ Len(inflight_tasks) \in {0, 1}
        /\ \A i \in 1..Len(inflight_tasks) : inflight_tasks'[i] = inflight_tasks[i]
        /\ Last(inflight_tasks') = NewStep /\ output_tokens' = output_tokens
    BY LaunchAppends
  <2>2. Len(inflight_tasks) # 0
    BY <1>1, <1>3, StateTypes, EmptySeq DEF HasInflightTask, PartInv
  <2>3. Len(inflight_tasks) = 1
    BY <2>1, <2>2
  <2>4. NewStep = inflight_tasks'[2]
    BY <2>3 DEF NewStep
  <2>5. exec_len = out'
    BY <1>1, <2>1 DEF OutputInv, out
  <2> QED BY <2>1, <2>3, <2>4, <2>5
<1> DEFINE t == inflight_tasks'[2]
           d == DraftsOf(inflight_tasks[1])
           end == exec_len + d
<1>5. /\ t.kind = "decode" /\ t \in InflightTask
      /\ kv_cached_token_num' = end
      /\ pending_placeholders' # <<>> /\ Last(pending_placeholders').pos = end
      /\ forwarding_tokens' \in Seq(Token)
      /\ Len(forwarding_tokens') = end + 1 + DraftsOf(t)
      /\ \A i \in 1..exec_len : forwarding_tokens'[i] = i
  BY <1>2, <1>4, AheadState
<1>6. forwarding_tokens_draft_num' = DraftsOf(t)
  <2>1. t.workload.draft_token_num = planning_task.workload.draft_token_num
    BY <1>1, <1>4, ReserveEffect
  <2> QED BY <2>1 DEF ReserveBuildAheadPlaceholderBlock, DraftsOf
<1>7. LaunchPlaceholderOffset = end
  BY <1>3, <1>5 DEF LaunchPlaceholderOffset
<1> HIDE DEF t, d, end
<1>8. /\ Snapshot.kind = "decode" /\ Snapshot.fwd = forwarding_tokens'
      /\ Snapshot.kv = end /\ Snapshot.draft_num = DraftsOf(t)
      /\ Snapshot.ph = end /\ ~Snapshot.recompute
  BY <1>4, <1>5, <1>6, <1>7 DEF Snapshot, t
<1>9. DecodeSnap(Snapshot, t, exec_len, d)
  BY <1>5, <1>8 DEF DecodeSnap, end
<1> QED BY <1>4, <1>5, <1>9 DEF t, d

\* The queues behind a launch: the new snapshot is the one that the Execute thread
\* takes next, or it is behind the only other one.
LEMMA LaunchQueues ==
  ASSUME SerialInv, ~is_eos_generated, LaunchScheduleOutput, FastPath, NoBubbles
  PROVE  /\ LaunchPlanningTask /\ ~recompute_ids' /\ QueueInv'
         /\ UNCHANGED <<results, host_ring, last_block, next_drafts, exec_req, kv_cache>>
         /\ answered \in {0, 1} /\ inflight_tasks' # <<>>
         /\ answered = 1 => inflight_tasks'[1] = inflight_tasks[1]
         /\ \/ /\ dispatched = <<>> /\ Len(dispatched') = 1 /\ dispatched' # <<>>
               /\ dispatched'[1] = Snapshot /\ NextTask' = NewStep
               /\ answered = Len(inflight_tasks)
            \/ /\ answered = 0 /\ Len(dispatched') = 2 /\ dispatched' # <<>>
               /\ dispatched # <<>> /\ ~recompute_ids
               /\ dispatched'[1] = dispatched[1] /\ dispatched'[2] = Snapshot
               /\ inflight_tasks'[1] = inflight_tasks[1]
               /\ inflight_tasks'[2] = NewStep
<1>1. /\ LaunchPlanningTask /\ dispatched' = Append(dispatched, Snapshot)
      /\ recompute_ids' = FALSE
      /\ UNCHANGED <<results, host_ring, last_block, next_drafts, exec_req, kv_cache>>
  BY DEF LaunchScheduleOutput, Snapshot, ring_state
<1>2. /\ Len(inflight_tasks) \in {0, 1}
      /\ Len(inflight_tasks') = Len(inflight_tasks) + 1
      /\ \A i \in 1..Len(inflight_tasks) : inflight_tasks'[i] = inflight_tasks[i]
  BY <1>1, LaunchAppends DEF SerialInv
<1>3. NewStep = inflight_tasks'[Len(inflight_tasks) + 1]
  BY DEF NewStep
<1>4. /\ answered \in {0, 1, 2} /\ Len(dispatched) \in {0, 1, 2}
      /\ Len(inflight_tasks) = answered + Len(dispatched)
      /\ dispatched = <<>> <=> Len(dispatched) = 0
      /\ Queue2(dispatched) /\ Queue2(results)
  <2>1. Len(inflight_tasks) \in {0, 1, 2}
    BY <1>2
  <2> QED BY <2>1, QueueNumbers DEF SerialInv, QueueInv
<1> DEFINE k == Len(inflight_tasks)
           m == Len(dispatched)
           a == answered
           l == Len(dispatched')
<1>5. /\ Queue2(dispatched') /\ l = m + 1 /\ dispatched' # <<>>
      /\ dispatched'[m + 1] = Snapshot
      /\ m = 1 => dispatched'[1] = dispatched[1]
  <2> DEFINE x == Snapshot
  <2>1. dispatched' = Append(dispatched, x)
    BY <1>1
  <2>2. Queue2(dispatched) /\ Len(dispatched) # 2
    <3> HIDE DEF k, m, a
    <3>1. k \in {0, 1} /\ k = a + m /\ a \in {0, 1, 2} /\ m \in {0, 1, 2}
      BY <1>2, <1>4 DEF k, m, a
    <3>2. m # 2
      BY <3>1
    <3> QED BY <1>4, <3>2 DEF m
  <2> HIDE DEF x
  <2> QED BY <2>1, <2>2, QueuePush DEF x
<1>6. answered' = answered
  BY <1>1 DEF answered
<1>7. inflight_tasks' # <<>>
  <2>1. Len(inflight_tasks') # 0
    BY <1>2
  <2> QED BY <2>1, EmptySeq
<1>8. recompute_ids => k = 0
  <2>1. Len(<<>>) = 0
    BY EmptySeq
  <2> QED BY <2>1 DEF SerialInv, PathInv
<1>9. \/ m = 0 /\ a = k /\ a \in {0, 1}
      \/ m = 1 /\ a = 0 /\ k = 1
  <2> HIDE DEF k, m, a
  <2>1. k \in {0, 1} /\ k = a + m /\ a \in {0, 1, 2} /\ m \in {0, 1, 2}
    BY <1>2, <1>4 DEF k, m, a
  <2> QED BY <2>1
<1>10. QueueInv'
  <2>1. Len(inflight_tasks') = a + l
    <3> HIDE DEF k, m, a, l
    <3>1. Len(inflight_tasks') = k + 1 /\ l = m + 1 /\ k = a + m
      BY <1>2, <1>4, <1>5 DEF k, m, a, l
    <3> QED BY <1>9, <3>1
  <2> QED BY <1>1, <1>4, <1>5, <1>6, <2>1 DEF QueueInv
<1>11. CASE m = 0 /\ a = k /\ a \in {0, 1}
  <2>1. dispatched = <<>> /\ l = 1 /\ dispatched'[1] = Snapshot
    BY <1>4, <1>5, <1>11
  <2>2. NextTask' = NewStep
    BY <1>3, <1>6, <1>11 DEF NextTask
  <2>3. a = 1 => inflight_tasks'[1] = inflight_tasks[1]
    BY <1>2, <1>11
  <2> QED BY <1>1, <1>5, <1>7, <1>10, <1>11, <2>1, <2>2, <2>3
<1>12. CASE m = 1 /\ a = 0 /\ k = 1
  <2>1. dispatched # <<>> /\ l = 2 /\ dispatched'[1] = dispatched[1] /\ dispatched'[2] = Snapshot
    BY <1>4, <1>5, <1>12
  <2>2. inflight_tasks'[1] = inflight_tasks[1] /\ inflight_tasks'[2] = NewStep
    BY <1>2, <1>3, <1>12
  <2>3. ~recompute_ids
    BY <1>8, <1>12
  <2> QED BY <1>1, <1>5, <1>7, <1>10, <1>12, <2>1, <2>2, <2>3
<1> QED BY <1>9, <1>11, <1>12

\* What the Engine does not touch when it plans or launches.
SameRun ==
  /\ UNCHANGED <<results, host_ring, last_block, next_drafts, exec_req, kv_cache,
                 infer_stage, eos, exec_len, exec_good, is_eos_generated>>
  /\ \A i \in 1..answered : inflight_tasks'[i] = inflight_tasks[i]

\* Then everything that is said of the steps that ran still holds.
LEMMA SameRunKeeps ==
  ASSUME SameRun, Queue2(results)
  PROVE  /\ HasRun' <=> HasRun
         /\ HasEnded' <=> HasEnded
         /\ AnswersInv => AnswersInv'
         /\ Fresh => Fresh'
         /\ HasRun /\ RanInv => RanInv'
         /\ UNCHANGED <<answered, exec_base, exec_draft>>
         /\ ExecutorForwardsText => ExecutorForwardsText'
<1>1. /\ UNCHANGED <<results, host_ring, last_block, next_drafts, exec_req, kv_cache,
                     infer_stage, eos, exec_len, exec_good, is_eos_generated>>
      /\ \A i \in 1..answered : inflight_tasks'[i] = inflight_tasks[i]
  BY DEF SameRun
<1>2. UNCHANGED <<answered, exec_base, exec_draft>>
  BY <1>1 DEF answered, exec_base, exec_draft
<1>3. answered \in {0, 1, 2}
  BY QueueLen DEF answered
<1>4. /\ HasRun' <=> HasRun
      /\ HasEnded' <=> HasEnded
      /\ EndedEarlier' <=> EndedEarlier
  BY <1>1, <1>2 DEF HasRun, HasEnded, EndedEarlier
<1>5. /\ answered # 0 => /\ inflight_tasks'[1] = inflight_tasks[1]
                         /\ LenAfter(1, exec_len)' = LenAfter(1, exec_len)
                         /\ GoodAfter(1, exec_good)' = GoodAfter(1, exec_good)
      /\ answered = 2 => inflight_tasks'[2] = inflight_tasks[2]
  <2>1. /\ answered # 0 => inflight_tasks'[1] = inflight_tasks[1]
        /\ answered = 2 => inflight_tasks'[2] = inflight_tasks[2]
    BY <1>1, <1>3
  <2> QED BY <1>1, <2>1 DEF LenAfter, GoodAfter
<1>6. ran_len' = ran_len /\ ran_good' = ran_good
  <2>1. answered = 2 =>
          /\ LenAfter(2, LenAfter(1, exec_len))' = LenAfter(2, LenAfter(1, exec_len))
          /\ GoodAfter(2, GoodAfter(1, exec_good))' = GoodAfter(2, GoodAfter(1, exec_good))
    BY <1>1, <1>5 DEF LenAfter, GoodAfter
  <2> QED BY <1>1, <1>2, <1>3, <1>5, <2>1 DEF ran_len, ran_good
<1>7. AnswersInv => AnswersInv'
  <2>1. ASSUME answered >= 1, RightAnswer(results[1], inflight_tasks[1], exec_len, exec_good)
        PROVE  RightAnswer(results[1], inflight_tasks[1], exec_len, exec_good)'
    <3>1. answered # 0
      BY <1>3, <2>1
    <3> QED BY <1>1, <1>5, <2>1, <3>1 DEF RightAnswer, Verdict
  <2>2. ASSUME answered = 2,
               RightAnswer(results[2], inflight_tasks[2],
                           LenAfter(1, exec_len), GoodAfter(1, exec_good))
        PROVE  RightAnswer(results[2], inflight_tasks[2],
                           LenAfter(1, exec_len), GoodAfter(1, exec_good))'
    BY <1>1, <1>5, <2>2 DEF RightAnswer, Verdict
  <2> QED BY <1>2, <1>4, <2>1, <2>2 DEF AnswersInv
<1>8. Fresh => Fresh'
  BY <1>1 DEF Fresh, IsFresh
<1>9. Ran(ran_len, ran_good) => Ran(ran_len, ran_good)'
  BY <1>1, <1>2, <1>6 DEF Ran, LeftBehind
<1>10. /\ answered = 1 /\ RanLast(1, exec_len) => RanLast(1, exec_len)'
       /\ answered = 2 /\ RanLast(2, LenAfter(1, exec_len))
            => RanLast(2, LenAfter(1, exec_len))'
  BY <1>1, <1>2, <1>5 DEF RanLast
<1>11. HasRun /\ RanInv => RanInv'
  BY <1>1, <1>2, <1>4, <1>9, <1>10 DEF RanInv
<1>12. ExecutorForwardsText => ExecutorForwardsText'
  BY <1>1 DEF ExecutorForwardsText, TextHadEnded
<1> QED BY <1>2, <1>4, <1>7, <1>8, <1>11, <1>12

\* A launch keeps the invariant.
LEMMA LaunchInv ==
  ASSUME SerialInv, LaunchScheduleOutput, FastPath, NoBubbles, TextInv'
  PROVE  SerialInv'
<1>1. /\ TextInv /\ QueueInv /\ ExecutorForwardsText /\ LaunchPlanningTask
      /\ Queue2(results)
  BY DEF LaunchScheduleOutput, SerialInv, QueueInv
<1>2. /\ ~is_eos_generated
      /\ LaunchPrefill \/ ReserveBuildAheadPlaceholderBlock
      /\ UNCHANGED <<infer_stage, is_eos_generated, eos, exec_len, exec_good>>
  BY <1>1, LaunchAppends
<1>3. AnswersInv /\ SnapInv /\ RanInv
  BY <1>2 DEF SerialInv, PathInv
<1>4. /\ ~recompute_ids' /\ QueueInv'
      /\ UNCHANGED <<results, host_ring, last_block, next_drafts, exec_req, kv_cache>>
      /\ answered \in {0, 1}
      /\ answered = 1 => inflight_tasks'[1] = inflight_tasks[1]
  BY <1>2, LaunchQueues
<1> DEFINE First == /\ dispatched = <<>> /\ Len(dispatched') = 1 /\ dispatched' # <<>>
                    /\ dispatched'[1] = Snapshot /\ NextTask' = NewStep
                    /\ answered = Len(inflight_tasks)
           Second == /\ answered = 0 /\ Len(dispatched') = 2 /\ dispatched' # <<>>
                     /\ dispatched # <<>> /\ ~recompute_ids
                     /\ dispatched'[1] = dispatched[1] /\ dispatched'[2] = Snapshot
                     /\ inflight_tasks'[1] = inflight_tasks[1]
                     /\ inflight_tasks'[2] = NewStep
<1>5. First \/ Second
  BY <1>2, LaunchQueues
<1>6. SameRun
  BY <1>2, <1>4 DEF SameRun
<1>7. /\ HasRun' <=> HasRun
      /\ HasEnded' <=> HasEnded
      /\ AnswersInv'
      /\ Fresh => Fresh'
      /\ HasRun => RanInv'
      /\ UNCHANGED <<answered, exec_base, exec_draft>>
      /\ ExecutorForwardsText'
  BY <1>1, <1>3, <1>6, SameRunKeeps
<1>8. Stale => Stale'
  <2>1. CASE First
    <3>1. Stale => Snapshot.recompute
      BY <2>1 DEF Stale, Snapshot
    <3> QED BY <2>1, <3>1 DEF Stale
  <2>2. CASE Second
    BY <2>2 DEF Stale
  <2> QED BY <1>5, <2>1, <2>2
<1>9. RanInv'
  BY <1>3, <1>7, <1>8 DEF RanInv
<1>10. Second => ~Snapshot.recompute
  BY DEF Snapshot
<1>11. SnapInv'
  <2>1. CASE LaunchPrefill
    <3>1. ChunkSnap(Snapshot, NewStep) /\ NewStep.kind # "decode"
      BY <1>1, <2>1, ChunkSnapshot
    <3>2. CASE First
      <4>1. NextSnap'
        BY <3>1, <3>2 DEF NextSnap, ChunkSnap
      <4> QED BY <3>2, <4>1 DEF SnapInv
    <3>3. CASE Second
      <4>1. NextSnap
        BY <1>3, <3>3 DEF SnapInv
      <4>2. NextTask' = NextTask
        BY <1>7, <3>3 DEF NextTask
      <4>3. NextSnap'
        BY <1>7, <3>3, <4>1, <4>2 DEF NextSnap, ChunkSnap, DecodeSnap
      <4>4. SecondSnap'
        BY <1>10, <3>1, <3>3 DEF SecondSnap, ChunkSnap
      <4> QED BY <4>3, <4>4 DEF SnapInv
    <3> QED BY <1>5, <3>2, <3>3
  <2>2. CASE ~LaunchPrefill
    <3>1. ReserveBuildAheadPlaceholderBlock /\ HasInflightTask
          /\ planning_task.workload.prefill_token_num = 0
      BY <1>1, <1>2, <2>2 DEF ReserveBuildAheadPlaceholderBlock, LaunchPlanningTask
    <3>2. ~recompute_ids
      BY <1>2, <3>1 DEF SerialInv, PathInv, HasInflightTask
    <3>3. /\ Len(inflight_tasks) = 1 /\ NewStep.kind = "decode"
          /\ DecodeSnap(Snapshot, NewStep, exec_len, DraftsOf(inflight_tasks[1]))
      BY <1>1, <3>1, <3>2, DecodeSnapshot
    <3>4. CASE First
      <4>1. answered = 1
        BY <3>3, <3>4
      <4>2. Samples(inflight_tasks[1])
        <5>1. Prompting \/ OneStep
          BY <1>1, LaunchAppends
        <5>2. LastStep(inflight_tasks[1]) \/ DecodeStep(inflight_tasks[1])
          <6>1. PromptLaunched
            BY <1>1, <3>1, DecodeLaunch DEF TextInv
          <6> QED BY <3>3, <5>1, <6>1 DEF Prompting, OneStep
        <5>3. inflight_tasks[1] \in InflightTask
          BY <1>1, <1>2, <3>1, <3>3, InFlightKinds
        <5> DEFINE t == inflight_tasks[1]
        <5>4. DecodeStep(t) => t.kind = "decode"
          BY DEF DecodeStep
        <5> HIDE DEF t
        <5>5. Samples(t)
          BY <5>2, <5>3, <5>4, KindsSample DEF t
        <5> QED BY <5>5 DEF t
      <4>3. HasRun /\ ~EndedEarlier
        BY <4>1, <4>2 DEF HasRun, EndedEarlier
      <4>4. exec_base = exec_len /\ exec_draft = DraftsOf(inflight_tasks[1])
        BY <1>3, <4>1, <4>3 DEF RanInv, RanLast
      <4>5. NextSnap'
        BY <1>7, <3>3, <3>4, <4>4 DEF NextSnap, DecodeSnap
      <4> QED BY <3>4, <4>5 DEF SnapInv
    <3>5. CASE Second
      <4>1. NextSnap
        BY <1>3, <3>5 DEF SnapInv
      <4>2. NextTask' = NextTask
        BY <1>7, <3>5 DEF NextTask
      <4>3. NextSnap'
        BY <1>7, <3>5, <4>1, <4>2 DEF NextSnap, ChunkSnap, DecodeSnap
      <4>4. SecondSnap'
        BY <1>2, <1>10, <3>3, <3>5 DEF SecondSnap, DecodeSnap
      <4> QED BY <4>3, <4>4 DEF SnapInv
    <3> QED BY <1>5, <3>4, <3>5
  <2> QED BY <2>1, <2>2
<1> QED BY <1>4, <1>7, <1>9, <1>11 DEF SerialInv, PathInv

-----------------------------------------------------------------------------
(***************************************************************************)
(* The answer that the Engine takes is the oracle's.                       *)
(***************************************************************************)

\* Behind the stop token the content of an answer does not matter.
LEMMA RetireEnded ==
  ASSUME is_eos_generated, NEW gen, NEW acc, NEW dr, Retire(gen, acc, dr)
  PROVE  Retire(<<>>, <<>>, <<>>)
BY DEF Retire, RetireSplitPrefill, TryRetireBackfillNextPlaceholderBlock,
       RetireOwnPlaceholderBlockAndShift, RetireWithoutPlaceholder

\* A verdict on the step in flight is what FinishStep answers.
LEMMA VerdictIsAnswer ==
  ASSUME NEW t, NEW next
  PROVE  LET r == Verdict(exec_len, exec_good, DraftsOf(t), next)
         IN  /\ r.gen = Bonus(t) /\ r.acc = Accepted(t)
             /\ r.dr = Drafts(SampledLen(t), next)
             /\ r.len = SampledLen(t) /\ r.good = next
<1> DEFINE v == Min2(exec_good, DraftsOf(t))
           full == exec_len + v + 1
           end == IF exec_len < eos /\ eos <= full THEN eos ELSE full
<1>1. Verified(t) = v /\ SampledLen(t) = end
  BY DEF Verified, SampledLen, DraftsOf
<1>2. Bonus(t) = IF end = full THEN <<end>> ELSE <<>>
  BY <1>1 DEF Bonus
<1>3. Accepted(t) = NextTokens(exec_len, Min2(v, end - exec_len))
  BY <1>1 DEF Accepted, NextTokens
<1>4. Verdict(exec_len, exec_good, DraftsOf(t), next)
        = [gen |-> IF end = full THEN <<end>> ELSE <<>>,
           acc |-> NextTokens(exec_len, Min2(v, end - exec_len)),
           dr |-> Drafts(end, next), len |-> end, good |-> next]
  BY DEF Verdict
<1> HIDE DEF v, full, end
<1> QED BY <1>1, <1>2, <1>3, <1>4

\* Every update is a step of InferRequest that finishes the oldest step.
LEMMA UpdateIsFinish ==
  ASSUME SerialInv, UpdateWithGenerationResult, FastPath, NoBubbles
  PROVE  LaunchedAhead /\ \E good \in 0..MtpStepNum : FinishStep(good)
<1> DEFINE r == results[1]
           t == inflight_tasks[1]
<1>1. /\ TextInv /\ QueueInv /\ Queue2(results) /\ MtpStepNum \in Nat
  BY InferRequestAssumption DEF SerialInv, QueueInv
<1>2. Head(results) = r /\ answered \in {1, 2}
  BY <1>1, QueuePop DEF UpdateWithGenerationResult, answered
<1>3. /\ LaunchedAhead /\ HasInflightTask
      /\ Retire(r.gen, r.acc, r.dr)
      /\ IF Samples(Head(inflight_tasks)) /\ ~is_eos_generated
           THEN exec_len' = r.len /\ exec_good' = r.good
           ELSE UNCHANGED <<exec_len, exec_good>>
      /\ is_stopped' = (is_stopped \/ is_eos_generated')
      /\ UNCHANGED <<eos, recomputes>>
  <2>1. Retire(r.gen, r.acc, r.dr)
    BY <1>2 DEF UpdateWithGenerationResult
  <2>2. HasInflightTask
    BY <2>1 DEF Retire
  <2> QED BY <1>2, <2>1, <2>2 DEF UpdateWithGenerationResult
<1>4. Head(inflight_tasks) = t
  BY <1>1, <1>3, StateTypes, TailElements DEF TextInv, PartInv, HasInflightTask
<1> HIDE DEF r
<1>5. CASE is_eos_generated
  <2>1. Retire(<<>>, <<>>, <<>>)
    BY <1>3, <1>5, RetireEnded
  <2>2. FinishStep(0)
    BY <1>3, <1>5, <2>1 DEF FinishStep
  <2>3. 0 \in 0..MtpStepNum
    BY <1>1
  <2> QED BY <1>3, <2>2, <2>3
<1>6. CASE ~is_eos_generated
  <2>1. RightAnswer(r, t, exec_len, exec_good)
    <3>1. AnswersInv /\ answered >= 1
      BY <1>2, <1>6 DEF SerialInv, PathInv
    <3> QED BY <3>1 DEF AnswersInv, r
  <2>2. CASE Samples(t)
    <3>1. PICK next \in 0..MtpStepNum : r = Verdict(exec_len, exec_good, DraftsOf(t), next)
      BY <2>1, <2>2 DEF RightAnswer
    <3>2. /\ r.gen = Bonus(t) /\ r.acc = Accepted(t)
          /\ r.dr = Drafts(SampledLen(t), next)
          /\ r.len = SampledLen(t) /\ r.good = next
      BY <3>1, VerdictIsAnswer
    <3> HIDE DEF t
    <3>3. FinishStep(next)
      BY <1>3, <1>4, <1>6, <2>2, <3>2 DEF FinishStep
    <3> QED BY <1>3, <3>3
  <2>3. CASE ~Samples(t)
    <3>1. r.gen = <<>> /\ r.acc = <<>> /\ r.dr = <<>>
      BY <2>1, <2>3 DEF RightAnswer, NoAnswer
    <3> HIDE DEF t
    <3>2. FinishStep(0)
      BY <1>3, <1>4, <2>3, <3>1 DEF FinishStep
    <3>3. 0 \in 0..MtpStepNum
      BY <1>1
    <3> QED BY <1>3, <3>2, <3>3
  <2> QED BY <2>2, <2>3
<1> QED BY <1>5, <1>6

\* The queues behind an update: both lose their oldest element.
LEMMA UpdateQueues ==
  ASSUME SerialInv, UpdateWithGenerationResult, FastPath, NoBubbles
  PROVE  /\ QueueInv' /\ Queue2(results') /\ answered \in {1, 2}
         /\ answered = 1 => answered' = 0
         /\ answered = 2 => /\ answered' = 1 /\ results'[1] = results[2]
                            /\ dispatched = <<>>
         /\ Len(dispatched) # 2
         /\ HasInflightTask /\ Len(inflight_tasks) \in {1, 2}
         /\ Len(inflight_tasks) = 2 => inflight_tasks'[1] = inflight_tasks[2]
         /\ dispatched # <<>> => answered = 1 /\ Len(inflight_tasks) = 2
         /\ Len(inflight_tasks) = 1 => answered = 1
         /\ UNCHANGED <<eos, recompute_ids, dispatched, host_ring, last_block,
                        next_drafts, exec_req, kv_cache>>
         /\ is_eos_generated => is_eos_generated'
<1>1. /\ TextInv /\ PartInv /\ QueueInv /\ Queue2(results) /\ Queue2(dispatched)
      /\ Len(inflight_tasks) = answered + Len(dispatched)
  BY DEF SerialInv, QueueInv, TextInv
<1>2. PICK good \in 0..MtpStepNum : FinishStep(good)
  BY UpdateIsFinish
<1>3. /\ HasInflightTask /\ inflight_tasks' = Tail(inflight_tasks)
      /\ is_eos_generated => is_eos_generated'
  BY <1>1, <1>2, RetireQueue
<1>4. /\ results # <<>> /\ results' = Tail(results)
      /\ UNCHANGED <<eos, recompute_ids, dispatched, host_ring, last_block,
                     next_drafts, exec_req, kv_cache>>
  BY DEF UpdateWithGenerationResult, ring_state
<1> DEFINE k == Len(inflight_tasks)
           a == answered
           m == Len(dispatched)
<1>5. inflight_tasks \in Seq(InflightTask) /\ inflight_tasks # <<>>
  BY <1>1, <1>3, StateTypes DEF PartInv, HasInflightTask
<1>6. /\ k \in Nat /\ Len(inflight_tasks') = k - 1
      /\ k = 2 => inflight_tasks'[1] = inflight_tasks[2]
  <2>1. /\ k \in Nat /\ k >= 1
        /\ Len(Tail(inflight_tasks)) = k - 1
        /\ \A i \in 1..(k - 1) : Tail(inflight_tasks)[i] = inflight_tasks[i + 1]
    BY <1>5, TailElements
  <2> DEFINE q == Tail(inflight_tasks)
  <2>2. k = 2 => q[1] = inflight_tasks[2]
    <3> HIDE DEF q
    <3>1. k = 2 => 1 \in 1..(k - 1) /\ 1 + 1 = 2
      BY <2>1
    <3> QED BY <2>1, <3>1 DEF q
  <2> QED BY <1>3, <2>1, <2>2
<1>7. /\ Queue2(results') /\ Len(results') = a - 1 /\ a \in {1, 2}
      /\ a = 2 => results'[1] = results[2]
  BY <1>1, <1>4, QueuePop DEF answered
<1>8. m \in {0, 1, 2} /\ (m = 0 <=> dispatched = <<>>)
  BY <1>1, QueueLen
<1>9. k = a + m /\ k \in {0, 1, 2}
  <2>1. k <= 2
    <3>1. k <= max_depth
      BY <1>1, StateNumbers DEF PartInv
    <3>2. max_depth = 2
      BY MtpSerialAssumption DEF max_depth, kMaxInflightDepth
    <3> QED BY <3>1, <3>2
  <2> HIDE DEF k
  <2> QED BY <1>1, <1>6, <2>1 DEF k
<1>10. /\ k \in {1, 2} /\ m # 2
       /\ a = 2 => m = 0 /\ k = 2
       /\ m # 0 => a = 1 /\ k = 2
       /\ k = 1 => a = 1
  <2> HIDE DEF k, a, m
  <2> QED BY <1>7, <1>8, <1>9
<1>11. answered' = a - 1
  BY <1>7 DEF answered
<1>12. QueueInv'
  <2>1. k - 1 = (a - 1) + m
    <3> HIDE DEF k, a, m
    <3> QED BY <1>7, <1>8, <1>9
  <2> QED BY <1>1, <1>4, <1>6, <1>7, <1>11, <2>1 DEF QueueInv
<1>13. (a = 1 => answered' = 0) /\ (a = 2 => answered' = 1)
  <2> HIDE DEF a
  <2> QED BY <1>11
<1> QED BY <1>3, <1>4, <1>6, <1>7, <1>8, <1>10, <1>12, <1>13

\* What an update makes of the text before it has ended.
LEMMA UpdateShifts ==
  ASSUME SerialInv, UpdateWithGenerationResult, FastPath, NoBubbles, TextInv',
         ~is_eos_generated'
  PROVE  /\ exec_len' = LenAfter(1, exec_len) /\ exec_good' = GoodAfter(1, exec_good)
         /\ results[1].len # eos
         /\ infer_stage' = "decode"
              <=> infer_stage = "decode" \/ Samples(inflight_tasks[1])
<1> DEFINE t == inflight_tasks[1]
           r == results[1]
<1>1. /\ TextInv /\ PartInv /\ ~is_eos_generated /\ HasInflightTask /\ answered >= 1
      /\ Queue2(results) /\ results # <<>> /\ eos' = eos
      /\ Len(inflight_tasks) \in {1, 2}
  <2>1. answered \in {1, 2} /\ HasInflightTask /\ eos' = eos
        /\ (is_eos_generated => is_eos_generated')
        /\ Len(inflight_tasks) \in {1, 2}
    BY UpdateQueues
  <2>2. answered >= 1
    BY <2>1
  <2> QED BY <2>1, <2>2 DEF SerialInv, QueueInv, TextInv, UpdateWithGenerationResult
<1>2. Head(results) = r
  BY <1>1, QueuePop
<1>3. Head(inflight_tasks) = t
  BY <1>1, StateTypes, TailElements DEF PartInv, HasInflightTask
<1>4. /\ Retire(r.gen, r.acc, r.dr)
      /\ IF Samples(t) THEN exec_len' = r.len /\ exec_good' = r.good
                       ELSE UNCHANGED <<exec_len, exec_good>>
  <2> HIDE DEF t, r
  <2> QED BY <1>1, <1>2, <1>3 DEF UpdateWithGenerationResult
<1>5. exec_len' = LenAfter(1, exec_len) /\ exec_good' = GoodAfter(1, exec_good)
  BY <1>4 DEF LenAfter, GoodAfter
<1>6. r.len # eos
  <2>1. RightAnswer(r, t, exec_len, exec_good)
    BY <1>1 DEF SerialInv, PathInv, AnswersInv
  <2>2. CASE Samples(t)
    <3>1. exec_len' = out' /\ out' # eos'
      BY DEF TextInv, OutputInv, OutputIsText, out
    <3> QED BY <1>1, <1>4, <2>2, <3>1
  <2>3. CASE ~Samples(t)
    <3>1. r.len = 0
      BY <2>1, <2>3 DEF RightAnswer, NoAnswer
    <3>2. eos \in Nat /\ exec_len \in Nat /\ exec_len < eos
      BY <1>1, InFlightKinds
    <3> QED BY <3>1, <3>2
  <2> QED BY <2>2, <2>3
<1>7. t \in InflightTask /\ (MidStep(t) \/ LastStep(t) \/ DecodeStep(t))
  <2>1. 1 \in 1..Len(inflight_tasks)
    BY <1>1
  <2> QED BY <1>1, <2>1, InFlightKinds
<1>8. CASE Samples(t)
  <2>1. ~MidStep(t)
    <3> HIDE DEF t
    <3> QED BY <1>8 DEF MidStep, Samples
  <2>2. t.workload.prefill_token_num = 0 \/ LastStep(t)
    BY <1>7, <2>1 DEF DecodeStep
  <2>3. ~IsSplitPrefillStep
    BY <1>1, <2>2, NotSplit
  <2>4. infer_stage' = "decode"
    <3> HIDE DEF r
    <3> QED BY <1>1, <1>4, <2>3
      DEF Retire, RetireAfterEos, RetireSplitPrefill,
          TryRetireBackfillNextPlaceholderBlock, RetireOwnPlaceholderBlockAndShift,
          RetireWithoutPlaceholder
  <2> QED BY <1>5, <1>6, <1>8, <2>4
<1>9. CASE ~Samples(t)
  <2>1. MidStep(t)
    <3> HIDE DEF t
    <3> QED BY <1>7, <1>9, KindsSample DEF DecodeStep
  <2>2. IsSplitPrefillStep
    <3>1. /\ t.workload.prefill_token_num \in Nat
          /\ t.workload.prefill_start_offset \in Nat
      BY <1>7, StepFields
    <3>2. /\ t.workload.prefill_token_num > 0
          /\ t.workload.prefill_token_num + t.workload.prefill_start_offset
               < Len(prefilling_tokens)
      <4> DEFINE n == t.workload.prefill_token_num
                 at == t.workload.prefill_start_offset
      <4>1. n > 0 /\ at + n < Len(prefilling_tokens)
        BY <2>1 DEF MidStep, IsChunk, ChunkEnd
      <4>2. n + at = at + n
        <5> HIDE DEF n, at
        <5> QED BY <3>1 DEF n, at
      <4> QED BY <4>1, <4>2
    <3> QED BY <1>1, <1>3, <3>2 DEF IsSplitPrefillStep
  <2>3. infer_stage' = infer_stage
    <3> HIDE DEF r
    <3> QED BY <1>1, <1>4, <2>2
      DEF Retire, RetireAfterEos, RetireSplitPrefill,
          TryRetireBackfillNextPlaceholderBlock, RetireOwnPlaceholderBlockAndShift,
          RetireWithoutPlaceholder
  <2> QED BY <1>5, <1>6, <1>9, <2>3
<1> QED BY <1>8, <1>9

\* An update keeps the invariant: what was said of the second step is now said of
\* the first.
LEMMA UpdateInv ==
  ASSUME SerialInv, UpdateWithGenerationResult, FastPath, NoBubbles, TextInv'
  PROVE  SerialInv'
<1> DEFINE t == inflight_tasks[1]
           u == inflight_tasks[2]
<1>1. /\ QueueInv' /\ Queue2(results') /\ answered \in {1, 2}
      /\ answered = 1 => answered' = 0
      /\ answered = 2 => /\ answered' = 1 /\ results'[1] = results[2]
                         /\ dispatched = <<>>
      /\ Len(dispatched) # 2
      /\ HasInflightTask /\ Len(inflight_tasks) \in {1, 2}
      /\ Len(inflight_tasks) = 2 => inflight_tasks'[1] = inflight_tasks[2]
      /\ dispatched # <<>> => answered = 1 /\ Len(inflight_tasks) = 2
      /\ Len(inflight_tasks) = 1 => answered = 1
      /\ UNCHANGED <<eos, recompute_ids, dispatched, host_ring, last_block,
                     next_drafts, exec_req, kv_cache>>
      /\ is_eos_generated => is_eos_generated'
  BY UpdateQueues
<1>2. CASE is_eos_generated'
  <2>1. PathInv' /\ ExecutorForwardsText'
    BY <1>2 DEF PathInv, ExecutorForwardsText, TextHadEnded
  <2> QED BY <1>1, <2>1 DEF SerialInv
<1>3. CASE ~is_eos_generated'
  <2>1. /\ TextInv /\ ~is_eos_generated /\ ExecutorForwardsText
        /\ AnswersInv /\ SnapInv /\ RanInv /\ Queue2(results)
        /\ recompute_ids => inflight_tasks = <<>>
    BY <1>1, <1>3 DEF SerialInv, PathInv, QueueInv
  <2>2. /\ exec_len' = LenAfter(1, exec_len) /\ exec_good' = GoodAfter(1, exec_good)
        /\ results[1].len # eos
        /\ infer_stage' = "decode" <=> infer_stage = "decode" \/ Samples(t)
    BY <1>3, UpdateShifts
  <2>3. UNCHANGED <<exec_base, exec_draft>>
    BY <1>1 DEF exec_base, exec_draft
  <2>4. ~EndedEarlier /\ ~EndedEarlier'
    BY <1>1, <2>2 DEF EndedEarlier
  <2>5. CASE answered = 1
    <3>1. answered' = 0
      BY <1>1, <2>5
    <3>2. HasRun' <=> HasRun
      BY <2>2, <2>5, <3>1 DEF HasRun
    <3>3. ~HasEnded /\ ~HasEnded'
      BY <2>2, <2>5, <3>1 DEF HasEnded
    <3>4. ran_len' = ran_len /\ ran_good' = ran_good
      BY <2>2, <2>5, <3>1 DEF ran_len, ran_good
    <3>5. AnswersInv'
      BY <3>1 DEF AnswersInv
    <3>6. RanInv'
      <4>1. Ran(ran_len, ran_good) => Ran(ran_len, ran_good)'
        BY <1>1, <2>3, <3>4 DEF Ran, LeftBehind
      <4>2. Stale => Stale'
        BY <1>1 DEF Stale
      <4>3. Fresh => Fresh'
        BY <1>1 DEF Fresh, IsFresh
      <4> QED BY <1>1, <2>1, <2>3, <2>4, <3>1, <3>2, <3>3, <4>1, <4>2, <4>3 DEF RanInv
    <3>7. SnapInv'
      <4>1. ASSUME dispatched # <<>> PROVE NextSnap'
        <5>1. NextSnap /\ NextTask = u /\ NextTask' = u
          <6>1. answered + 1 = 2 /\ answered' + 1 = 1
            BY <2>5, <3>1
          <6> QED BY <1>1, <2>1, <4>1, <6>1 DEF SnapInv, NextTask
        <5> QED BY <1>1, <2>3, <3>3, <5>1 DEF NextSnap, ChunkSnap, DecodeSnap
      <4> QED BY <1>1, <4>1 DEF SnapInv
    <3>8. ExecutorForwardsText'
      <4>1. ~TextHadEnded
        <5>1. Len(results) = 1
          BY <2>5 DEF answered
        <5>2. 1..(Len(results) - 1) = {}
          BY <5>1
        <5> QED BY <2>1, <5>2 DEF TextHadEnded
      <4> QED BY <1>1, <2>1, <4>1 DEF ExecutorForwardsText
    <3> QED BY <1>1, <2>1, <3>5, <3>6, <3>7, <3>8 DEF SerialInv, PathInv, HasInflightTask
  <2>6. CASE answered = 2
    <3>1. answered' = 1 /\ results'[1] = results[2] /\ dispatched' = <<>>
          /\ inflight_tasks'[1] = u
      BY <1>1, <2>6
    <3>2. HasRun' <=> HasRun
      <4>1. HasRun <=> infer_stage = "decode" \/ Samples(t) \/ Samples(u)
        BY <2>6 DEF HasRun
      <4>2. HasRun' <=> infer_stage' = "decode" \/ Samples(u)
        BY <3>1 DEF HasRun
      <4> QED BY <2>2, <4>1, <4>2
    <3>3. HasEnded' <=> HasEnded
      <4>1. HasEnded <=> results[1].len = eos \/ results[2].len = eos
        BY <2>6 DEF HasEnded
      <4>2. HasEnded' <=> results[2].len = eos
        BY <1>1, <3>1 DEF HasEnded
      <4> QED BY <2>2, <4>1, <4>2
    <3>4. /\ LenAfter(1, exec_len)' = LenAfter(2, LenAfter(1, exec_len))
          /\ GoodAfter(1, exec_good)' = GoodAfter(2, GoodAfter(1, exec_good))
      BY <2>2, <3>1 DEF LenAfter, GoodAfter
    <3>5. ran_len' = ran_len /\ ran_good' = ran_good
      BY <2>6, <3>1, <3>4 DEF ran_len, ran_good
    <3>6. AnswersInv'
      <4>1. RightAnswer(results[2], u, LenAfter(1, exec_len), GoodAfter(1, exec_good))
        BY <2>1, <2>4, <2>6 DEF AnswersInv
      <4>2. RightAnswer(results[1], inflight_tasks[1], exec_len, exec_good)'
        BY <1>1, <2>2, <3>1, <4>1 DEF RightAnswer, Verdict
      <4> QED BY <3>1, <4>2 DEF AnswersInv
    <3>7. RanInv'
      <4>1. Ran(ran_len, ran_good) => Ran(ran_len, ran_good)'
        BY <1>1, <2>3, <3>5 DEF Ran, LeftBehind
      <4>2. Stale => Stale'
        BY <1>1 DEF Stale
      <4>3. Fresh => Fresh'
        BY <1>1 DEF Fresh, IsFresh
      <4>4. RanLast(2, LenAfter(1, exec_len)) => RanLast(1, exec_len)'
        BY <1>1, <2>2, <2>3, <3>1 DEF RanLast
      <4> QED BY <1>1, <2>1, <2>3, <2>4, <2>6, <3>1, <3>2, <3>3, <4>1, <4>2, <4>3, <4>4
              DEF RanInv
    <3>8. SnapInv'
      <4>1. Len(<<>>) = 0
        BY EmptySeq
      <4> QED BY <3>1, <4>1 DEF SnapInv
    <3>9. ExecutorForwardsText'
      <4>1. ~TextHadEnded
        <5>1. Len(results) = 2
          BY <2>6 DEF answered
        <5>2. \A i \in 1..(Len(results) - 1) : i = 1
          BY <5>1
        <5> QED BY <2>1, <2>2, <5>2 DEF TextHadEnded
      <4> QED BY <1>1, <2>1, <4>1 DEF ExecutorForwardsText
    <3> QED BY <1>1, <2>1, <3>6, <3>7, <3>8, <3>9 DEF SerialInv, PathInv, HasInflightTask
  <2> QED BY <1>1, <2>5, <2>6
<1> QED BY <1>2, <1>3

-----------------------------------------------------------------------------
(***************************************************************************)
(* Planning and block pressure.                                            *)
(***************************************************************************)

\* Planning, stopping and idling leave the steps and the Execute thread alone.
LEMMA EngineKeeps ==
  ASSUME SerialInv, TextInv', UNCHANGED runner,
         UNCHANGED <<inflight_tasks, infer_stage, eos, exec_len, exec_good,
                     is_eos_generated>>
  PROVE  SerialInv'
<1>1. /\ QueueInv /\ Queue2(results) /\ ExecutorForwardsText
      /\ UNCHANGED <<recompute_ids, dispatched, results, host_ring, last_block,
                     next_drafts, exec_req, kv_cache>>
  BY DEF SerialInv, QueueInv, runner, ring_state
<1>2. SameRun
  BY <1>1 DEF SameRun
<1>3. /\ HasRun' <=> HasRun
      /\ HasEnded' <=> HasEnded
      /\ AnswersInv => AnswersInv'
      /\ Fresh => Fresh'
      /\ HasRun /\ RanInv => RanInv'
      /\ UNCHANGED <<answered, exec_base, exec_draft>>
      /\ ExecutorForwardsText'
  BY <1>1, <1>2, SameRunKeeps
<1>4. QueueInv'
  BY <1>1, <1>3 DEF QueueInv
<1>5. SnapInv => SnapInv'
  <2>1. NextTask' = NextTask
    BY <1>3 DEF NextTask
  <2>2. NextSnap => NextSnap'
    BY <1>1, <1>3, <2>1 DEF NextSnap, ChunkSnap, DecodeSnap
  <2>3. SecondSnap => SecondSnap'
    BY <1>1 DEF SecondSnap, ChunkSnap, DecodeSnap
  <2> QED BY <1>1, <2>2, <2>3 DEF SnapInv
<1>6. RanInv => RanInv'
  <2>1. Stale => Stale'
    BY <1>1 DEF Stale
  <2> QED BY <1>3, <2>1 DEF RanInv
<1>7. PathInv'
  BY <1>1, <1>3, <1>5, <1>6 DEF SerialInv, PathInv
<1> QED BY <1>3, <1>4, <1>7 DEF SerialInv

\* A recomputed request has no step in flight; what the Execute thread still keeps
\* of it is cleared with the next one.
LEMMA RecomputeInv ==
  ASSUME SerialInv, TextInv', SyncRecompute
  PROVE  SerialInv'
<1>1. /\ ~is_eos_generated /\ inflight_tasks = <<>> /\ inflight_tasks' = <<>>
      /\ infer_stage' = "context" /\ ~is_eos_generated' /\ recompute_ids'
      /\ UNCHANGED <<eos, dispatched, results, exec_req, kv_cache>>
      /\ QueueInv /\ ExecutorForwardsText
  BY DEF SyncRecompute, Recompute, ResetPrefillingTokens, HasInflightTask, SerialInv
<1>2. Len(<<>>) = 0
  BY EmptySeq
<1>3. answered = 0 /\ dispatched = <<>>
  <2>1. /\ answered \in {0, 1, 2} /\ Len(dispatched) \in {0, 1, 2}
        /\ answered + Len(dispatched) = 0
        /\ dispatched = <<>> <=> Len(dispatched) = 0
    BY <1>1, <1>2, QueueLen DEF QueueInv, answered
  <2> QED BY <2>1
<1>4. answered' = 0 /\ dispatched' = <<>>
  BY <1>1, <1>3 DEF answered
<1>5. QueueInv'
  BY <1>1, <1>2, <1>4 DEF QueueInv
<1>6. ~HasRun' /\ Stale'
  BY <1>1, <1>4 DEF HasRun, Stale
<1>7. AnswersInv' /\ SnapInv' /\ RanInv'
  BY <1>2, <1>4, <1>6 DEF AnswersInv, SnapInv, RanInv
<1>8. ExecutorForwardsText'
  BY <1>1 DEF ExecutorForwardsText, TextHadEnded
<1> QED BY <1>1, <1>5, <1>7, <1>8 DEF SerialInv, PathInv

\* Nothing is said of a request that has ended.
LEMMA ReleaseInv ==
  ASSUME SerialInv, TextInv', ReleaseFinished
  PROVE  SerialInv'
<1>1. /\ is_eos_generated'
      /\ UNCHANGED <<inflight_tasks, results, dispatched>> /\ QueueInv
  BY DEF ReleaseFinished, Finished, vars, request, pipeline, SerialInv
<1>2. QueueInv'
  BY <1>1 DEF QueueInv, answered
<1> QED BY <1>1, <1>2 DEF SerialInv, PathInv, ExecutorForwardsText, TextHadEnded

-----------------------------------------------------------------------------
(***************************************************************************)
(* The theorems.                                                           *)
(***************************************************************************)

\* A new request is unknown to the Execute thread.
LEMMA SerialStart == SerialInit => SerialInv
<1> SUFFICES ASSUME SerialInit PROVE SerialInv
  OBVIOUS
<1>1. TextInv /\ Len(<<>>) = 0
  BY TextInit, EmptySeq DEF SerialInit
<1>2. /\ results = <<>> /\ dispatched = <<>> /\ inflight_tasks = <<>>
      /\ infer_stage = "context" /\ ~recompute_ids
      /\ host_ring = NoEntry /\ last_block = NoBlock /\ next_drafts = NoDrafts
      /\ kv_cache = <<>> /\ exec_req.fwd = <<>> /\ exec_req.draft_num = 0
  BY DEF SerialInit, Init
<1>3. answered = 0
  BY <1>1, <1>2 DEF answered
<1>4. QueueInv
  BY <1>1, <1>2, <1>3 DEF QueueInv, Queue2
<1>5. Fresh
  <2>1. Upto(0) = <<>>
    <3>1. Upto(0) \in Seq(Token) /\ Len(Upto(0)) = 0
      BY UptoElements
    <3> QED BY <3>1, EmptySeq
  <2> QED BY <1>1, <1>2, <2>1 DEF Fresh, IsFresh
<1>6. ~HasRun
  BY <1>2, <1>3 DEF HasRun
<1>7. AnswersInv /\ SnapInv /\ RanInv
  BY <1>1, <1>2, <1>3, <1>5, <1>6 DEF AnswersInv, SnapInv, RanInv
<1>8. ExecutorForwardsText
  <2>1. Len(exec_req.fwd) - exec_req.draft_num = 0
    BY <1>1, <1>2
  <2>2. \A s : IsText(s, 0)
    BY DEF IsText
  <2>3. DOMAIN exec_req.fwd = {}
    BY <1>2
  <2> QED BY <2>1, <2>2, <2>3 DEF ExecutorForwardsText
<1> QED BY <1>1, <1>2, <1>4, <1>7, <1>8 DEF SerialInv, PathInv

\* Every step of the Engine and the Execute thread is a step of InferRequest, or
\* leaves the request alone.
LEMMA StepRefines ==
  ASSUME NoBubbles
  PROVE  SerialInv /\ [SerialNext]_serial_vars => [Next]_vars
<1> SUFFICES ASSUME SerialInv, [SerialNext]_serial_vars PROVE [Next]_vars
  OBVIOUS
<1>0. FastPath
  BY MtpSerialAssumption
<1>1. CASE Plan
  BY <1>1 DEF Plan, Next
<1>2. CASE LaunchScheduleOutput
  BY <1>2 DEF LaunchScheduleOutput, Next
<1>3. ASSUME NEW good \in 0..MtpStepNum, HandleExecute(good) PROVE [Next]_vars
  <2>1. UNCHANGED vars
    BY <1>3 DEF HandleExecute
  <2> QED BY <2>1
<1>4. CASE UpdateWithGenerationResult
  <2>1. LaunchedAhead /\ \E good \in 0..MtpStepNum : FinishStep(good)
    BY <1>0, <1>4, UpdateIsFinish
  <2> QED BY <2>1 DEF Next
<1>5. CASE SerialStop
  BY <1>5 DEF SerialStop, Next
<1>6. CASE SyncRecompute
  BY <1>6 DEF SyncRecompute, Next
<1>7. CASE ReleaseFinished \/ UNCHANGED serial_vars
  <2>1. UNCHANGED vars
    BY <1>7 DEF ReleaseFinished, serial_vars
  <2> QED BY <2>1
<1>8. CASE SerialIdle
  BY <1>8 DEF SerialIdle, Next
<1> QED BY <1>1, <1>2, <1>3, <1>4, <1>5, <1>6, <1>7, <1>8 DEF SerialNext

\* One step per action.
LEMMA SerialStep ==
  ASSUME NoBubbles
  PROVE  SerialInv /\ [SerialNext]_serial_vars => SerialInv'
<1> SUFFICES ASSUME SerialInv, [SerialNext]_serial_vars PROVE SerialInv'
  OBVIOUS
<1>0. FastPath
  BY MtpSerialAssumption
<1>1. TextInv'
  <2>1. [Next]_vars
    BY StepRefines
  <2>2. AheadOfTime
    BY DEF AheadOfTime, NoBubbles
  <2> QED BY <2>1, <2>2, TextNext DEF SerialInv
<1>2. CASE Plan
  <2>1. UNCHANGED runner /\ UNCHANGED <<pipeline, executor>>
    BY <1>2 DEF Plan, PrefixCacheHit, SetInflightTaskGenResultEstimation, PlanPrefill,
                PlanDecode, SetPlanningTask
  <2> QED BY <1>1, <2>1, EngineKeeps DEF pipeline, executor
<1>3. CASE LaunchScheduleOutput
  BY <1>0, <1>1, <1>3, LaunchInv
<1>4. ASSUME NEW good \in 0..MtpStepNum, HandleExecute(good) PROVE SerialInv'
  BY <1>0, <1>1, <1>4, ExecuteInv
<1>5. CASE UpdateWithGenerationResult
  BY <1>0, <1>1, <1>5, UpdateInv
<1>6. CASE SerialStop
  <2>1. UNCHANGED runner /\ UNCHANGED <<pipeline, executor>>
    BY <1>6 DEF SerialStop, Stop
  <2> QED BY <1>1, <2>1, EngineKeeps DEF pipeline, executor
<1>7. CASE SyncRecompute
  BY <1>1, <1>7, RecomputeInv
<1>8. CASE ReleaseFinished
  BY <1>1, <1>8, ReleaseInv
<1>9. CASE SerialIdle \/ UNCHANGED serial_vars
  <2>1. UNCHANGED runner /\ UNCHANGED <<pipeline, executor>>
    BY <1>9 DEF SerialIdle, Idle, serial_vars, vars, request
  <2> QED BY <1>1, <2>1, EngineKeeps DEF pipeline, executor
<1> QED BY <1>2, <1>3, <1>4, <1>5, <1>6, <1>7, <1>8, <1>9 DEF SerialNext

\* The invariant of the request and its executor.
THEOREM SerialCorrect == ASSUME NoBubbles PROVE SerialSpec => []SerialInv
<1>1. SerialInit => SerialInv
  BY SerialStart
<1>2. SerialInv /\ [SerialNext]_serial_vars => SerialInv'
  BY SerialStep
<1> QED BY <1>1, <1>2, PTL DEF SerialSpec

\* The executor never forwards a wrong token or a placeholder, and never from a KV
\* cache that holds a rejected draft: what RepairMtpSerialBlock makes of a
\* placeholder block is the text and its own block, whatever was rejected before.
THEOREM ExecutorForwardsTextCorrect ==
  ASSUME NoBubbles PROVE SerialSpec => []ExecutorForwardsText
<1>1. SerialInv => ExecutorForwardsText
  BY DEF SerialInv
<1> QED BY <1>1, SerialCorrect, PTL

\* The executor answers what the oracle of InferRequest may answer, in the same
\* order, none lost or given twice: the safety part of RefinesInferRequest.
THEOREM RefinesInferRequestCorrect ==
  ASSUME NoBubbles PROVE SerialSpec => Spec
<1>1. SerialInit => Init
  BY DEF SerialInit
<1>2. SerialInv /\ [SerialNext]_serial_vars => [Next]_vars
  BY StepRefines
<1> QED BY <1>1, <1>2, SerialCorrect, PTL DEF SerialSpec, Spec

\* So the client of a request that this executor runs receives the text.
THEOREM SerialOutputIsText ==
  ASSUME NoBubbles PROVE SerialSpec => []OutputIsText
<1>1. AheadOfTime
  BY DEF AheadOfTime, NoBubbles
<1>2. Spec => []OutputIsText
  BY <1>1, OutputIsTextCorrect
<1> QED BY <1>2, RefinesInferRequestCorrect, PTL

\* Engine and executor cut rejected drafts independently, and agree on where the
\* block is: RetireOwnPlaceholderBlockAndShift on the Engine's oldest block and
\* mtp_serial_last_block_ never drift apart.
THEOREM BlocksAgreeCorrect == ASSUME NoBubbles PROVE SerialSpec => []BlocksAgree
<1>1. SerialInv => BlocksAgree
  <2> SUFFICES ASSUME SerialInv, ~is_eos_generated, Len(results) = 1,
                      Head(inflight_tasks).placeholder
               PROVE  last_block = Head(pending_placeholders)
    BY DEF BlocksAgree
  <2> DEFINE t == inflight_tasks[1]
  <2>1. /\ TextInv /\ PartInv /\ QueueInv /\ RanInv /\ FastPath /\ answered = 1
        /\ Queue2(dispatched)
    BY MtpSerialAssumption DEF SerialInv, PathInv, TextInv, QueueInv, answered
  <2>2. HasInflightTask
    <3>1. Len(inflight_tasks) = 1 + Len(dispatched) /\ Len(dispatched) \in {0, 1, 2}
      BY <2>1, QueueLen DEF QueueInv
    <3>2. Len(inflight_tasks) # 0
      BY <3>1
    <3> QED BY <3>2, SomeTask
  <2>3. Head(inflight_tasks) = t
    BY <2>1, <2>2, StateTypes, TailElements DEF PartInv, HasInflightTask
  <2>4. DecodeStep(t) /\ infer_stage = "decode"
    <3>1. /\ Len(inflight_tasks) \in {1, 2}
          /\ t.kind = "decode" <=> infer_stage = "decode"
      BY <2>1, <2>2, InFlightKinds
    <3>2. 1 \in 1..Len(inflight_tasks)
      BY <3>1
    <3>3. MidStep(t) \/ LastStep(t) \/ DecodeStep(t)
      BY <2>1, <2>2, <3>2, InFlightKinds
    <3>4. DecodeStep(t)
      BY <2>3, <3>3 DEF MidStep, LastStep
    <3> QED BY <3>1, <3>4 DEF DecodeStep
  <2>5. last_block = [pos |-> exec_len - 1, draft |-> DraftsOf(t)]
    <3>1. RanLast(1, exec_len)
      BY <2>1, <2>4 DEF RanInv, HasRun, EndedEarlier
    <3> QED BY <2>4, <3>1 DEF RanLast, DecodeStep
  <2>6. OneStep \/ TwoSteps
    BY <2>1, <2>2, <2>4 DEF TextInv, ShapeInv, Prompting, FirstAhead, Drained,
                           HasInflightTask
  <2>7. Head(pending_placeholders) = BlockOf(t, out - 1)
    <3>1. \A x : Head(<<x>>) = x
      OBVIOUS
    <3>2. \A x, y : Head(<<x, y>>) = x
      OBVIOUS
    <3> QED BY <2>1, <2>6, <3>1, <3>2 DEF OneStep, TwoSteps
  <2>8. exec_len = out
    BY <2>1 DEF TextInv, OutputInv, out
  <2> QED BY <2>5, <2>7, <2>8 DEF BlockOf, DraftsOf
<1> QED BY <1>1, SerialCorrect, PTL
================================================================================

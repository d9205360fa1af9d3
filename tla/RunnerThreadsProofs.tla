--------------------------- MODULE RunnerThreadsProofs ---------------------------
(***************************************************************************)
(* The safety properties of RunnerThreads, for every kind of runner, any   *)
(* number of steps and a Stop or an error at any moment.                   *)
(*                                                                         *)
(* ThreadInv: the model's forwarding context has one user at a time, and   *)
(* the bounded queue of the MTP serial path never makes Preprocess wait.   *)
(* ModeInv (which threads a runner has) serves three more: HeldInHands,    *)
(* who has the buffer and the epoch of a step; CacheInv, whose the cached  *)
(* requests are; and Numbered, the numbers of all steps between the Engine *)
(* and the last answer.                                                    *)
(***************************************************************************)
EXTENDS RunnerThreads, SequenceTheorems, TLAPS

\* The shape of the state that the arguments need.
Points ==
  {"get", "work", "put", "update", "begin", "wait", "lock", "forward", "sample",
   "mtp_lock", "mtp_forward", "answer", "report", "done"}

Thread == [pc : Points, step : Nat]

Shape ==
  /\ runner \in Runners
  /\ sent \in Nat
  /\ schedule_output_queue \in Seq(Nat) /\ model_input_queue \in Seq(Nat)
  /\ model_output_queue \in Seq(Nat) /\ sampling_output_queue \in Seq(Nat)
  /\ answers \in Seq(Nat)
  /\ preprocess \in Thread /\ execute \in Thread
  /\ postprocess \in Thread /\ report \in Thread

\* forward_lock says who is in Forward or MtpForward; only one body at a time
\* is in MtpForward.
LockOwner ==
  /\ execute.pc = "forward" <=> forward_lock = "execute"
  /\ execute.pc = "mtp_forward" \/ postprocess.pc = "mtp_forward"
       <=> forward_lock = "postprocess"
  /\ ~(execute.pc = "mtp_forward" /\ postprocess.pc = "mtp_forward")

\* Steps that a thread has in its hands, and steps that are anywhere between
\* EngineSends and the answer.
Busy(thread) == IF thread.pc \in {"get", "done"} THEN 0 ELSE 1

Underway ==
  Len(schedule_output_queue) + Len(model_input_queue)
    + Len(model_output_queue) + Len(sampling_output_queue)
    + Busy(preprocess) + Busy(execute) + Busy(postprocess) + Busy(report)

\* Where answers are given, they account for every step that is under way, and
\* the Engine keeps to its depth.
Answering == runner.device0 /\ runner.sampling

Counted ==
  Answering => /\ Underway <= sent - Len(answers)
               /\ sent - Len(answers) <= runner.depth

ThreadInv == Shape /\ LockOwner /\ Counted

-----------------------------------------------------------------------------
(* Threads and queues *)

\* A thread that has ended is a thread, and holds no step.
LEMMA DoneShape == Done \in Thread /\ Done.pc = "done" /\ Busy(Done) = 0
  BY DEF Done, At, Thread, Points, Busy

\* A queue loses its first step to a thread, or the thread ends.
LEMMA GetFromShape ==
  ASSUME NEW queue \in Seq(Nat), NEW queue_next, NEW thread_next,
         NEW pc \in Points,
         \/ queue # <<>> /\ thread_next = At(pc, Head(queue))
                         /\ queue_next = Tail(queue)
         \/ thread_next = Done /\ queue_next = queue
  PROVE  /\ queue_next \in Seq(Nat) /\ thread_next \in Thread
         /\ Len(queue_next) + Busy(thread_next) <= Len(queue)
         /\ thread_next.pc \in {pc, "done"}
  <1>1. CASE queue # <<>> /\ thread_next = At(pc, Head(queue))
                         /\ queue_next = Tail(queue)
    <2>1. Head(queue) \in Nat /\ queue_next \in Seq(Nat)
          /\ Len(queue_next) = Len(queue) - 1
      BY <1>1
    <2>2. thread_next \in Thread /\ thread_next.pc = pc
      BY <1>1, <2>1 DEF Thread, At
    <2>3. Busy(thread_next) \in {0, 1}
      BY DEF Busy
    <2> QED BY <2>1, <2>2, <2>3
  <1>2. CASE thread_next = Done /\ queue_next = queue
    <2>1. thread_next \in Thread /\ thread_next.pc = "done" /\ Busy(thread_next) = 0
      BY <1>2, DoneShape
    <2> QED BY <1>2, <2>1
  <1> QED BY <1>1, <1>2

\* A queue gains the step of a thread, unless it has been stopped.
LEMMA PutToShape ==
  ASSUME NEW queue, NEW queue_next, NEW step \in Nat, NEW name,
         queue \in Seq(Nat),
         queue_next = IF name \in stopped THEN queue ELSE Append(queue, step)
  PROVE  /\ queue_next \in Seq(Nat)
         /\ Len(queue_next) \in {Len(queue), Len(queue) + 1}
  OBVIOUS

\* Behind an iteration a thread waits for the next step or has ended.
LEMMA NextIterationShape ==
  /\ NextIteration \in Thread
  /\ NextIteration.pc \in {"get", "done"}
  /\ Busy(NextIteration) = 0
  BY DEF NextIteration, AtGet, Done, At, Thread, Points, Busy

\* A thread that goes on in its iteration stays a thread.
LEMMA MovedShape ==
  ASSUME NEW thread \in Thread, NEW pc \in Points
  PROVE  /\ [thread EXCEPT !.pc = pc] \in Thread
         /\ [thread EXCEPT !.pc = pc].pc = pc
  BY DEF Thread

\* The step of a thread is a number.
LEMMA StepIsNat == ASSUME NEW thread \in Thread PROVE thread.step \in Nat
  BY DEF Thread

\* Who neither sends nor answers may only lower the count.
LEMMA CountedFrame ==
  ASSUME Shape, Shape', Counted,
         UNCHANGED <<runner, sent, answers>>,
         Answering => Underway' <= Underway
  PROVE  Counted'
  <1>1. Len(answers) \in Nat /\ Underway \in Int /\ Underway' \in Int
    BY DEF Shape, Underway, Busy
  <1>2. ASSUME Answering PROVE runner.depth \in 1..2
    BY RunnerThreadsAssumption DEF Shape, Runner
  <1> QED BY <1>1, <1>2 DEF Counted, Answering, Shape

\* At the start every thread waits, the queues are empty, the lock is free.
LEMMA ThreadInit == Init => ThreadInv
  <1> SUFFICES ASSUME Init PROVE ThreadInv
    OBVIOUS
  <1>1. Shape
    BY DoneShape DEF Init, Shape, AtGet, At, Thread, Points
  <1>2. /\ preprocess.pc \in {"get", "done"} /\ execute.pc \in {"get", "done"}
        /\ postprocess.pc \in {"get", "done"} /\ report.pc \in {"get", "done"}
    BY DoneShape DEF Init, AtGet, At
  <1>3. LockOwner
    BY <1>2 DEF Init, LockOwner
  <1>4. Counted
    BY <1>2, RunnerThreadsAssumption
    DEF Init, Counted, Answering, Underway, Busy, Runner
  <1> QED BY <1>1, <1>3, <1>4 DEF ThreadInv

\* The Engine sends a step only below the depth.
LEMMA EngineSendsInv == ThreadInv /\ EngineSends => ThreadInv'
  <1> SUFFICES ASSUME ThreadInv, EngineSends PROVE ThreadInv'
    OBVIOUS
  <1>1. Shape'
    BY DEF ThreadInv, Shape, EngineSends
  <1>2. LockOwner'
    BY DEF ThreadInv, LockOwner, EngineSends
  <1>3. Counted'
    <2>1. Underway' = Underway + 1
      BY DEF ThreadInv, Shape, EngineSends, Underway, Busy
    <2>2. Underway \in Int /\ Len(answers) \in Nat /\ sent \in Nat
      BY DEF ThreadInv, Shape, Underway, Busy
    <2>3. Answering => runner.depth \in 1..2
      BY RunnerThreadsAssumption DEF ThreadInv, Shape, Runner
    <2> QED BY <2>1, <2>2, <2>3 DEF ThreadInv, Counted, Answering, EngineSends
  <1> QED BY <1>1, <1>2, <1>3 DEF ThreadInv

\* Preprocess moves a step from its queue to the next one.
LEMMA PreprocessInv == ThreadInv /\ Preprocess => ThreadInv'
  <1> SUFFICES ASSUME ThreadInv, Preprocess PROVE ThreadInv'
    OBVIOUS
  <1> USE DEF ThreadInv
  <1>1. CASE PreprocessGet
    <2>1. /\ schedule_output_queue' \in Seq(Nat) /\ preprocess' \in Thread
          /\ Len(schedule_output_queue') + Busy(preprocess')
               <= Len(schedule_output_queue)
          /\ Busy(preprocess) = 0
      <3>1. "work" \in Points /\ Busy(preprocess) = 0
        BY <1>1 DEF PreprocessGet, GetFrom, Points, Busy, AtGet, At
      <3> QED BY <1>1, <3>1, GetFromShape DEF PreprocessGet, GetFrom, Shape
    <2>2. Shape'
      BY <1>1, <2>1 DEF PreprocessGet, Shape, engine
    <2>3. LockOwner'
      BY <1>1 DEF PreprocessGet, LockOwner
    <2>4. Underway' <= Underway
      BY <1>1, <2>1 DEF PreprocessGet, Underway, Shape, Busy
    <2> QED BY <1>1, <2>2, <2>3, <2>4, CountedFrame DEF PreprocessGet, engine
  <1>2. CASE PreprocessWork
    <2>1. preprocess' \in Thread /\ Busy(preprocess') <= Busy(preprocess)
      <3>1. "put" \in Points BY DEF Points
      <3> QED BY <1>2, <3>1, MovedShape, DoneShape DEF PreprocessWork, Shape, Busy
    <2>2. Shape'
      BY <1>2, <2>1 DEF PreprocessWork, Shape, engine, queues
    <2>3. LockOwner'
      BY <1>2 DEF PreprocessWork, LockOwner
    <2>4. Underway' <= Underway
      BY <1>2, <2>1 DEF PreprocessWork, Underway, Shape, Busy, queues
    <2> QED BY <1>2, <2>2, <2>3, <2>4, CountedFrame DEF PreprocessWork, engine
  <1>3. CASE PreprocessPut
    <2>1. /\ model_input_queue' \in Seq(Nat)
          /\ Len(model_input_queue') <= Len(model_input_queue) + 1
      BY <1>3, StepIsNat, PutToShape DEF PreprocessPut, PutTo, Shape
    <2>2. preprocess' \in Thread /\ Busy(preprocess') = 0 /\ Busy(preprocess) = 1
      BY <1>3, NextIterationShape DEF PreprocessPut, Busy
    <2>3. Shape'
      BY <1>3, <2>1, <2>2 DEF PreprocessPut, Shape, engine
    <2>4. LockOwner'
      BY <1>3 DEF PreprocessPut, LockOwner
    <2>5. Underway' <= Underway
      BY <1>3, <2>1, <2>2 DEF PreprocessPut, Underway, Shape, Busy
    <2> QED BY <1>3, <2>3, <2>4, <2>5, CountedFrame DEF PreprocessPut, engine
  <1> QED BY <1>1, <1>2, <1>3 DEF Preprocess

\* A thread that goes on to another point of its body keeps its step.
LEMMA MovedBusy ==
  ASSUME NEW thread \in Thread, NEW pc \in Points \ {"get", "done"},
         thread.pc \notin {"get", "done"}
  PROVE  Busy([thread EXCEPT !.pc = pc]) = Busy(thread)
  BY MovedShape DEF Busy

\* Execute's own steps up to Forward.
LEMMA ExecuteToForwardInv ==
  ThreadInv /\ (ExecuteGet \/ ExecuteUpdate \/ ExecuteBegin \/ ExecuteWait
                 \/ ExecuteLock) => ThreadInv'
  <1> SUFFICES ASSUME ThreadInv,
                      ExecuteGet \/ ExecuteUpdate \/ ExecuteBegin \/ ExecuteWait
                        \/ ExecuteLock
               PROVE  ThreadInv'
    OBVIOUS
  <1> USE DEF ThreadInv
  <1>1. CASE ExecuteGet
    <2> DEFINE pc == IF IsMtpSerialFastPath THEN "update" ELSE "begin"
    <2>1. pc \in Points /\ pc \in {"update", "begin"}
      BY DEF Points
    <2>2. Busy(execute) = 0 /\ execute.pc = "get"
      BY <1>1 DEF ExecuteGet, GetFrom, Busy, AtGet, At
    <2>3. /\ model_input_queue' \in Seq(Nat) /\ execute' \in Thread
          /\ Len(model_input_queue') + Busy(execute') <= Len(model_input_queue)
          /\ execute'.pc \in {pc, "done"}
      BY <1>1, <2>1, GetFromShape DEF ExecuteGet, GetFrom, Shape
    <2>4. Shape'
      BY <1>1, <2>3 DEF ExecuteGet, Shape, engine
    <2>5. LockOwner'
      BY <1>1, <2>1, <2>2, <2>3 DEF ExecuteGet, LockOwner
    <2>6. Underway' <= Underway
      BY <1>1, <2>2, <2>3 DEF ExecuteGet, Underway, Shape, Busy
    <2> QED BY <1>1, <2>4, <2>5, <2>6, CountedFrame DEF ExecuteGet, engine
  <1>2. CASE ExecuteUpdate
    <2>1. /\ execute' \in Thread /\ execute'.pc \in {"begin", "done"}
          /\ Busy(execute') <= Busy(execute)
      <3>1. "begin" \in Points BY DEF Points
      <3>2. execute' \in Thread /\ execute'.pc \in {"begin", "done"}
        <4>1. CASE execute' = [execute EXCEPT !.pc = "begin"]
          BY <4>1, <3>1, MovedShape DEF Shape
        <4>2. CASE execute' = Done
          BY <4>2, DoneShape
        <4> QED BY <1>2, <4>1, <4>2 DEF ExecuteUpdate
      <3>3. Busy(execute) = 1 /\ Busy(execute') \in {0, 1}
        BY <1>2 DEF ExecuteUpdate, Busy
      <3> QED BY <3>2, <3>3
    <2>2. Shape'
      BY <1>2, <2>1 DEF ExecuteUpdate, Shape, engine, queues
    <2>3. LockOwner'
      BY <1>2, <2>1 DEF ExecuteUpdate, LockOwner
    <2>4. Underway' <= Underway
      BY <1>2, <2>1 DEF ExecuteUpdate, Underway, Shape, Busy, queues
    <2> QED BY <1>2, <2>2, <2>3, <2>4, CountedFrame DEF ExecuteUpdate, engine
  <1>3. CASE ExecuteBegin
    <2>1. /\ execute' \in Thread /\ execute'.pc \in {"wait", "lock"}
          /\ Busy(execute') = Busy(execute)
      <3>1. {"wait", "lock"} \subseteq Points BY DEF Points
      <3> QED BY <1>3, <3>1, MovedShape DEF ExecuteBegin, Shape, Busy
    <2>2. Shape'
      BY <1>3, <2>1 DEF ExecuteBegin, Shape, engine, queues
    <2>3. LockOwner'
      BY <1>3, <2>1 DEF ExecuteBegin, LockOwner
    <2>4. Underway' <= Underway
      BY <1>3, <2>1 DEF ExecuteBegin, Underway, Shape, Busy, queues
    <2> QED BY <1>3, <2>2, <2>3, <2>4, CountedFrame DEF ExecuteBegin, engine
  <1>4. CASE ExecuteWait
    <2>1. /\ execute' \in Thread /\ execute'.pc = "lock"
          /\ Busy(execute') = Busy(execute)
      <3>1. "lock" \in Points BY DEF Points
      <3> QED BY <1>4, <3>1, MovedShape DEF ExecuteWait, Shape, Busy
    <2>2. Shape'
      BY <1>4, <2>1 DEF ExecuteWait, Shape, engine, queues
    <2>3. LockOwner'
      BY <1>4, <2>1 DEF ExecuteWait, LockOwner
    <2>4. Underway' <= Underway
      BY <1>4, <2>1 DEF ExecuteWait, Underway, Shape, Busy, queues
    <2> QED BY <1>4, <2>2, <2>3, <2>4, CountedFrame DEF ExecuteWait, engine
  <1>5. CASE ExecuteLock
    <2>1. /\ execute' \in Thread /\ execute'.pc = "forward"
          /\ Busy(execute') = Busy(execute)
      <3>1. "forward" \in Points BY DEF Points
      <3> QED BY <1>5, <3>1, MovedShape DEF ExecuteLock, Shape, Busy
    <2>2. Shape'
      BY <1>5, <2>1 DEF ExecuteLock, Shape, engine, queues
    <2>3. LockOwner'
      BY <1>5, <2>1 DEF ExecuteLock, CanLockForward, LockOwner
    <2>4. Underway' <= Underway
      BY <1>5, <2>1 DEF ExecuteLock, Underway, Shape, Busy, queues
    <2> QED BY <1>5, <2>2, <2>3, <2>4, CountedFrame DEF ExecuteLock, engine
  <1> QED BY <1>1, <1>2, <1>3, <1>4, <1>5

\* Forward returns: the lock is free, and the step is given on or, inline, kept.
LEMMA ExecuteForwardedInv == ThreadInv /\ ExecuteForwarded => ThreadInv'
  <1> SUFFICES ASSUME ThreadInv, ExecuteForwarded PROVE ThreadInv'
    OBVIOUS
  <1> USE DEF ThreadInv
  <1>1. /\ execute.pc = "forward" /\ forward_lock = "execute"
        /\ postprocess.pc # "mtp_forward" /\ Busy(execute) = 1
    BY DEF ExecuteForwarded, LockOwner, Busy
  <1>2. "sample" \in Points
    BY DEF Points
  <1>3. /\ execute' \in Thread /\ execute'.pc \in {"get", "done", "sample"}
        /\ model_output_queue' \in Seq(Nat)
        /\ Answering => Len(model_output_queue') + Busy(execute')
                          <= Len(model_output_queue) + 1
    <2>1. CASE ~runner.sampling
      BY <2>1, NextIterationShape DEF ExecuteForwarded, Shape, Answering
    <2>2. CASE runner.sampling /\ runner.fast
      <3>1. execute' = Done \/ execute' = [execute EXCEPT !.pc = "sample"]
        BY <2>2 DEF ExecuteForwarded
      <3>2. execute' \in Thread /\ execute'.pc \in {"done", "sample"}
        BY <3>1, <1>2, DoneShape, MovedShape DEF Shape
      <3>3. Busy(execute') \in {0, 1}
        BY DEF Busy
      <3>4. model_output_queue' = model_output_queue
        BY <2>2 DEF ExecuteForwarded
      <3> QED BY <3>2, <3>3, <3>4 DEF Shape
    <2>3. CASE runner.sampling /\ ~runner.fast
      <3>1. execute' = NextIteration
        BY <2>3 DEF ExecuteForwarded
      <3>2. /\ model_output_queue' \in Seq(Nat)
            /\ Len(model_output_queue') <= Len(model_output_queue) + 1
        BY <2>3, StepIsNat, PutToShape DEF ExecuteForwarded, PutTo, Shape
      <3> QED BY <3>1, <3>2, NextIterationShape DEF Shape
    <2> QED BY <2>1, <2>2, <2>3
  <1>4. Shape'
    BY <1>3 DEF ExecuteForwarded, Shape, engine
  <1>5. LockOwner'
    BY <1>1, <1>3 DEF ExecuteForwarded, LockOwner
  <1>6. Answering => Underway' <= Underway
    <2>1. Busy(execute') \in {0, 1}
      BY DEF Busy
    <2> QED BY <1>1, <1>3, <2>1 DEF ExecuteForwarded, Underway, Shape, Busy
  <1> QED BY <1>4, <1>5, <1>6, CountedFrame DEF ExecuteForwarded, engine

\* Postprocess takes a step out of its queue, or ends.
LEMMA PostprocessGetInv == ThreadInv /\ PostprocessGet => ThreadInv'
  <1> SUFFICES ASSUME ThreadInv, PostprocessGet PROVE ThreadInv'
    OBVIOUS
  <1> USE DEF ThreadInv
  <1>1. Busy(postprocess) = 0 /\ postprocess.pc = "get" /\ "sample" \in Points
    BY DEF PostprocessGet, GetFrom, Busy, AtGet, At, Points
  <1>2. /\ model_output_queue' \in Seq(Nat) /\ postprocess' \in Thread
        /\ Len(model_output_queue') + Busy(postprocess') <= Len(model_output_queue)
        /\ postprocess'.pc \in {"sample", "done"}
    BY <1>1, GetFromShape DEF PostprocessGet, GetFrom, Shape
  <1>3. Shape'
    BY <1>2 DEF PostprocessGet, Shape, engine
  <1>4. LockOwner'
    BY <1>1, <1>2 DEF PostprocessGet, LockOwner
  <1>5. Underway' <= Underway
    BY <1>1, <1>2 DEF PostprocessGet, Underway, Shape, Busy
  <1> QED BY <1>3, <1>4, <1>5, CountedFrame DEF PostprocessGet, engine

\* The thread that runs the body moves, the other one stays.
LEMMA SetsShape ==
  ASSUME ThreadInv, NEW inline \in BOOLEAN, NEW state, Sets(inline, state)
  PROVE  /\ Body(inline) \in Thread
         /\ state \in Thread => execute' \in Thread /\ postprocess' \in Thread
         /\ Busy(execute') + Busy(postprocess') + Busy(Body(inline))
              = Busy(execute) + Busy(postprocess) + Busy(state)
  <1>1. CASE inline
    BY <1>1 DEF Sets, Body, ThreadInv, Shape, Busy
  <1>2. CASE ~inline
    BY <1>2 DEF Sets, Body, ThreadInv, Shape, Busy
  <1> QED BY <1>1, <1>2

\* A step of the body between Forward and the answer: it takes the lock for
\* MtpForward, returns it, or leaves it alone.
LEMMA BodyMovesInv ==
  ASSUME ThreadInv, NEW inline \in BOOLEAN,
         NEW pc \in {"mtp_lock", "mtp_forward", "answer"},
         Body(inline).pc \notin {"get", "done", "forward"},
         Sets(inline, [Body(inline) EXCEPT !.pc = pc]),
         \/ /\ pc # "mtp_forward" /\ Body(inline).pc # "mtp_forward"
            /\ UNCHANGED forward_lock
         \/ /\ pc = "mtp_forward" /\ Body(inline).pc # "mtp_forward"
            /\ forward_lock = "free" /\ forward_lock' = "postprocess"
         \/ /\ pc # "mtp_forward" /\ Body(inline).pc = "mtp_forward"
            /\ forward_lock' = "free",
         UNCHANGED <<engine, queues, preprocess, report, answers>>
  PROVE  ThreadInv'
  <1> DEFINE state == [Body(inline) EXCEPT !.pc = pc]
  <1>1. Body(inline) \in Thread
    BY SetsShape
  <1>2. pc \in Points /\ pc \notin {"get", "done", "forward"}
    BY DEF Points
  <1>3. state \in Thread /\ state.pc = pc /\ Busy(state) = Busy(Body(inline))
    BY <1>1, <1>2, MovedShape, MovedBusy
  <1>4. Shape'
    <2>1. execute' \in Thread /\ postprocess' \in Thread
      BY <1>3, SetsShape
    <2> QED BY <2>1 DEF ThreadInv, Shape, engine, queues
  <1>5. LockOwner'
    <2>1. CASE inline
      <3>1. /\ execute' = state /\ postprocess' = postprocess
            /\ Body(inline) = execute
        BY <2>1 DEF Sets, Body
      <3>2. execute'.pc = pc
        BY <3>1, <1>3
      <3> QED BY <3>1, <3>2, <1>2 DEF ThreadInv, LockOwner
    <2>2. CASE ~inline
      <3>1. /\ postprocess' = state /\ execute' = execute
            /\ Body(inline) = postprocess
        BY <2>2 DEF Sets, Body
      <3>2. postprocess'.pc = pc
        BY <3>1, <1>3
      <3> QED BY <3>1, <3>2, <1>2 DEF ThreadInv, LockOwner
    <2> QED BY <2>1, <2>2
  <1>6. Underway' <= Underway
    <2>1. Busy(execute') + Busy(postprocess') = Busy(execute) + Busy(postprocess)
      <3>1. Busy(Body(inline)) \in {0, 1} /\ Busy(execute) \in {0, 1}
            /\ Busy(postprocess) \in {0, 1} /\ Busy(execute') \in {0, 1}
            /\ Busy(postprocess') \in {0, 1}
        BY DEF Busy
      <3> QED BY <1>3, <3>1, SetsShape
    <2>2. UNCHANGED <<queues, preprocess, report>>
      OBVIOUS
    <2> QED BY <2>1, <2>2 DEF Underway, ThreadInv, Shape, queues, Busy
  <1> QED BY <1>4, <1>5, <1>6, CountedFrame DEF ThreadInv, engine

\* A step that passes from a thread to a queue is counted as before.
LEMMA OneMoreOneLess ==
  ASSUME NEW rest \in Int, NEW hands \in Int, NEW queue \in Int,
         NEW queue_next \in Int, NEW answered \in Int, NEW answered_next \in Int,
         queue_next + answered_next <= queue + answered + 1
  PROVE  rest + queue_next + (hands - 1) + answered_next
           <= rest + queue + hands + answered
  OBVIOUS

\* The answer leaves the body: to the report thread, or out of the runner.
LEMMA PostprocessAnswerInv ==
  ASSUME ThreadInv, NEW inline \in BOOLEAN, PostprocessAnswer(inline)
  PROVE  ThreadInv'
  <1> DEFINE me == Body(inline)
  <1>1. /\ me.pc = "answer" /\ me \in Thread /\ me.step \in Nat
        /\ Sets(inline, NextIteration) /\ Busy(me) = 1
    BY SetsShape, StepIsNat DEF PostprocessAnswer, Busy
  <1>2. execute' \in Thread /\ postprocess' \in Thread
        /\ Busy(execute') + Busy(postprocess') = Busy(execute) + Busy(postprocess) - 1
    <2>1. Busy(execute) \in {0, 1} /\ Busy(postprocess) \in {0, 1}
          /\ Busy(execute') \in {0, 1} /\ Busy(postprocess') \in {0, 1}
      BY DEF Busy
    <2> QED BY <1>1, <2>1, SetsShape, NextIterationShape
  <1>3. /\ sampling_output_queue' \in Seq(Nat)
        /\ IF inline THEN Len(sampling_output_queue') <= Len(sampling_output_queue) + 1
                     ELSE sampling_output_queue' = sampling_output_queue
    BY <1>1, PutToShape DEF PostprocessAnswer, PutTo, ThreadInv, Shape, Answers
  <1>4. /\ answers' \in Seq(Nat)
        /\ Answering => Len(answers') = Len(answers) + (IF inline THEN 0 ELSE 1)
    BY <1>1 DEF PostprocessAnswer, ReportsItself, Answers, Answering, ThreadInv, Shape
  <1>5. Shape'
    BY <1>2, <1>3, <1>4 DEF PostprocessAnswer, ThreadInv, Shape, engine
  <1>6. LockOwner'
    BY <1>1, NextIterationShape
    DEF PostprocessAnswer, Sets, Body, ThreadInv, LockOwner
  <1>7. Counted'
    <2>1. Answering => Underway' + Len(answers') <= Underway + Len(answers)
      <3> DEFINE Rest == Len(schedule_output_queue) + Len(model_input_queue)
                           + Len(model_output_queue)
                           + Busy(preprocess) + Busy(report)
      <3>1. Rest \in Int /\ Rest' = Rest
        BY DEF PostprocessAnswer, ThreadInv, Shape, Busy
      <3>2. /\ Underway = Rest + Len(sampling_output_queue)
                            + (Busy(execute) + Busy(postprocess))
            /\ Underway' = Rest' + Len(sampling_output_queue')
                            + (Busy(execute') + Busy(postprocess'))
        BY <1>5 DEF Underway, ThreadInv, Shape, Busy
      <3>3. /\ Len(sampling_output_queue) \in Nat
            /\ Len(sampling_output_queue') \in Nat /\ Len(answers) \in Nat
            /\ Busy(execute) \in Int /\ Busy(postprocess) \in Int
            /\ Busy(execute') \in Int /\ Busy(postprocess') \in Int
        BY <1>3 DEF ThreadInv, Shape, Busy
      <3> HIDE DEF Rest
      <3>4. ASSUME Answering
            PROVE  Len(sampling_output_queue') + Len(answers')
                     <= Len(sampling_output_queue) + Len(answers) + 1
        <4>1. CASE inline
          <5>1. Len(answers') = Len(answers)
            BY <1>4, <3>3, <3>4, <4>1
          <5> QED BY <1>3, <3>3, <4>1, <5>1
        <4>2. CASE ~inline
          <5>1. Len(answers') = Len(answers) + 1
            BY <1>4, <3>4, <4>2
          <5>2. sampling_output_queue' = sampling_output_queue
            BY <1>3, <4>2
          <5> QED BY <3>3, <5>1, <5>2
        <4> QED BY <4>1, <4>2
      <3>5. Len(answers') \in Nat
        BY <1>4
      <3>6. PICK hands \in Int : hands = Busy(execute) + Busy(postprocess)
        BY <3>3
      <3>7. Busy(execute') + Busy(postprocess') = hands - 1
        BY <1>2, <3>3, <3>6
      <3>8. Underway = Rest + Len(sampling_output_queue) + hands
        BY <3>2, <3>6
      <3>9. Underway' = Rest + Len(sampling_output_queue') + (hands - 1)
        BY <3>1, <3>2, <3>7
      <3>10. ASSUME Answering
             PROVE  Underway' + Len(answers') <= Underway + Len(answers)
        <4>1. Len(sampling_output_queue') + Len(answers')
                <= Len(sampling_output_queue) + Len(answers) + 1
          BY <3>4, <3>10
        <4>2. Rest \in Int
          BY <3>1
        <4>3. /\ Len(sampling_output_queue) \in Int /\ Len(answers) \in Int
              /\ Len(sampling_output_queue') \in Int /\ Len(answers') \in Int
          BY <3>3, <3>5
        <4>4. Rest + Len(sampling_output_queue') + (hands - 1) + Len(answers')
                <= Rest + Len(sampling_output_queue) + hands + Len(answers)
          BY <4>1, <4>2, <4>3, <3>6, OneMoreOneLess
        <4> QED BY <4>4, <3>8, <3>9
      <3> QED BY <3>10
    <2>2. Underway \in Int /\ Underway' \in Int /\ Len(answers) \in Nat
      BY <1>5 DEF Underway, ThreadInv, Shape, Busy
    <2>3. Answering => runner.depth \in 1..2
      BY RunnerThreadsAssumption DEF ThreadInv, Shape, Runner
    <2>4. UNCHANGED <<runner, sent>>
      BY DEF PostprocessAnswer, engine
    <2>5. Answering => Len(answers') \in Nat /\ Len(answers') >= Len(answers)
      BY <1>4, <2>2
    <2> QED BY <2>1, <2>2, <2>3, <2>4, <2>5
         DEF ThreadInv, Shape, Counted, Answering
  <1> QED BY <1>5, <1>6, <1>7 DEF ThreadInv

\* The rest of the body, in either thread.
LEMMA BodyInv ==
  ASSUME ThreadInv, NEW inline \in BOOLEAN,
         \/ PostprocessSample(inline) \/ PostprocessMtpLock(inline)
         \/ PostprocessMtpForwarded(inline)
  PROVE  ThreadInv'
  <1>1. CASE PostprocessSample(inline)
    <2> DEFINE pc == IF Drafts(Body(inline).step) THEN "mtp_lock" ELSE "answer"
    <2>1. /\ Body(inline).pc = "sample" /\ pc \in {"mtp_lock", "answer"}
          /\ Sets(inline, [Body(inline) EXCEPT !.pc = pc])
          /\ UNCHANGED <<forward_lock, engine, queues, preprocess, report, answers>>
      BY <1>1 DEF PostprocessSample
    <2> HIDE DEF pc
    <2> QED BY <2>1, BodyMovesInv
  <1>2. CASE PostprocessMtpLock(inline)
    <2>1. /\ Body(inline).pc = "mtp_lock" /\ forward_lock = "free"
          /\ forward_lock' = "postprocess"
          /\ Sets(inline, [Body(inline) EXCEPT !.pc = "mtp_forward"])
          /\ UNCHANGED <<engine, queues, preprocess, report, answers>>
      BY <1>2 DEF PostprocessMtpLock, CanLockForward
    <2> QED BY <2>1, BodyMovesInv
  <1>3. CASE PostprocessMtpForwarded(inline)
    <2>1. PICK pc \in {"mtp_lock", "answer"} :
            Sets(inline, [Body(inline) EXCEPT !.pc = pc])
      BY <1>3 DEF PostprocessMtpForwarded
    <2>2. /\ Body(inline).pc = "mtp_forward" /\ forward_lock' = "free"
          /\ UNCHANGED <<engine, queues, preprocess, report, answers>>
      BY <1>3 DEF PostprocessMtpForwarded
    <2> QED BY <2>1, <2>2, BodyMovesInv
  <1> QED BY <1>1, <1>2, <1>3

\* Report answers the step that it has taken.
LEMMA ReportInv == ThreadInv /\ Report => ThreadInv'
  <1> SUFFICES ASSUME ThreadInv, Report PROVE ThreadInv'
    OBVIOUS
  <1> USE DEF ThreadInv
  <1>1. CASE ReportGet
    <2>1. Busy(report) = 0 /\ "report" \in Points
      BY <1>1 DEF ReportGet, GetFrom, Busy, AtGet, At, Points
    <2>2. /\ sampling_output_queue' \in Seq(Nat) /\ report' \in Thread
          /\ Len(sampling_output_queue') + Busy(report')
               <= Len(sampling_output_queue)
      BY <1>1, <2>1, GetFromShape DEF ReportGet, GetFrom, Shape
    <2>3. Shape'
      BY <1>1, <2>2 DEF ReportGet, Shape, engine
    <2>4. LockOwner'
      BY <1>1 DEF ReportGet, LockOwner
    <2>5. Underway' <= Underway
      BY <1>1, <2>1, <2>2 DEF ReportGet, Underway, Shape, Busy
    <2> QED BY <1>1, <2>3, <2>4, <2>5, CountedFrame DEF ReportGet, engine
  <1>2. CASE ReportSend
    <2>1. /\ report' \in Thread /\ Busy(report') = 0 /\ Busy(report) = 1
      BY <1>2, NextIterationShape DEF ReportSend, Busy
    <2>2. /\ answers' \in Seq(Nat)
          /\ Answering => Len(answers') = Len(answers) + 1
      BY <1>2, StepIsNat DEF ReportSend, Answering, Shape
    <2>3. Shape'
      BY <1>2, <2>1, <2>2 DEF ReportSend, Shape, engine, queues
    <2>4. LockOwner'
      BY <1>2 DEF ReportSend, LockOwner
    <2>5. Underway' = Underway - 1
      BY <1>2, <2>1 DEF ReportSend, Underway, Shape, Busy, queues
    <2>6. Underway \in Int /\ Len(answers) \in Nat
      BY DEF Underway, Shape, Busy
    <2>7. Answering => runner.depth \in 1..2
      BY RunnerThreadsAssumption DEF Shape, Runner
    <2>8. UNCHANGED <<runner, sent>>
      BY <1>2 DEF ReportSend, engine
    <2>9. Counted'
      BY <2>2, <2>5, <2>6, <2>7, <2>8 DEF Shape, Counted, Answering
    <2> QED BY <2>3, <2>4, <2>9
  <1> QED BY <1>1, <1>2 DEF Report

\* Stop changes nothing that the arguments look at.
LEMMA FrameInv ==
  ThreadInv /\ UNCHANGED <<engine, queues, preprocess, execute, postprocess,
                          report, forward_lock, answers>> => ThreadInv'
  BY DEF ThreadInv, Shape, LockOwner, Counted, Answering, Underway, Busy,
         engine, queues

\* Every step of every thread keeps the invariant.
LEMMA ThreadStep == ThreadInv /\ [Next]_vars => ThreadInv'
  <1> SUFFICES ASSUME ThreadInv, [Next]_vars PROVE ThreadInv'
    OBVIOUS
  <1>1. CASE Execute
    BY <1>1, ExecuteToForwardInv, ExecuteForwardedInv, BodyInv,
       PostprocessAnswerInv DEF Execute
  <1>2. CASE Postprocess
    BY <1>2, PostprocessGetInv, BodyInv, PostprocessAnswerInv DEF Postprocess
  <1>3. CASE StopCalled \/ Stop
    BY <1>3, FrameInv DEF StopCalled, Stop, StopNext, StopJoin
  <1>4. CASE UNCHANGED vars
    BY <1>4, FrameInv DEF vars
  <1> QED BY <1>1, <1>2, <1>3, <1>4, EngineSendsInv, PreprocessInv, ReportInv
       DEF Next

-----------------------------------------------------------------------------
(* The results *)

\* Every thread is at a point of its loop, whoever is in Forward or MtpForward
\* holds the lock, and on the rank that answers the steps in queues and hands
\* are no more than the Engine's depth.
THEOREM ThreadInvCorrect == Spec => []ThreadInv
  BY ThreadInit, ThreadStep, PTL DEF Spec

\* However many steps are sent, on every path and with a Stop or a failure at
\* any moment, Forward and the MtpForward of another step never run together on
\* the one forwarding context (forward_mutex_ in CommonModel::Forward).
THEOREM ForwardExclusiveCorrect == Spec => []ForwardExclusive
  <1>1. ThreadInv => ForwardExclusive
    BY DEF ThreadInv, LockOwner, ForwardExclusive
  <1> QED BY <1>1, ThreadInvCorrect, PTL

\* On the rank whose answers pace the Engine, HandlePreprocess never waits for
\* room in the bounded input queue of the MTP serial path: with its own step
\* in hand there is at most one more in flight.
THEOREM PutNeverBlocksCorrect == Spec => []PutNeverBlocks
  <1>1. ThreadInv => PutNeverBlocks
    <2> SUFFICES ASSUME ThreadInv, Answering, preprocess.pc = "put"
                 PROVE  HasRoom(model_input_queue)
      BY DEF PutNeverBlocks, Answering
    <2>1. Busy(preprocess) = 1
      BY DEF Busy
    <2>2. Underway >= Len(model_input_queue) + 1
      BY <2>1 DEF Underway, ThreadInv, Shape, Busy
    <2>3. runner.depth \in 1..2 /\ Len(model_input_queue) \in Nat
          /\ Underway \in Int /\ sent \in Nat /\ Len(answers) \in Nat
      BY RunnerThreadsAssumption DEF ThreadInv, Shape, Runner, Underway, Busy
    <2>4. Len(model_input_queue) <= 1
      BY <2>2, <2>3 DEF ThreadInv, Counted
    <2> QED BY <2>3, <2>4 DEF HasRoom, MtpSerialModelInputQueueMaxDepth
  <1> QED BY <1>1, ThreadInvCorrect, PTL

-----------------------------------------------------------------------------
(* Which threads a runner has, and what Stop has set *)

BodyPoints == {"sample", "mtp_lock", "mtp_forward", "answer"}

StopFlags ==
  /\ stop \in Nat
  /\ stop # 0 \/ stopped # {} => terminated

\* The body runs inline, with the report thread, or in its own; only the MTP
\* serial path updates the cached requests in Execute.
Modes ==
  /\ runner.fast => postprocess = Done /\ model_output_queue = <<>>
  /\ ~runner.fast => /\ report = Done /\ sampling_output_queue = <<>>
                     /\ execute.pc \notin BodyPoints
  /\ execute.pc = "update" => IsMtpSerialFastPath

ModeInv == StopFlags /\ Modes

\* At the start no thread and no queue is in use that the mode does not have.
LEMMA ModeInit == Init => ModeInv
  BY DoneShape
  DEF Init, ModeInv, StopFlags, Modes, BodyPoints, HasPostprocessThread,
      HasReportThread, AtGet, At

\* What is done by the threads before the body, and by Stop.
LEMMA ModeFrame ==
  ASSUME ModeInv, UNCHANGED <<runner, postprocess, report, model_output_queue,
                              sampling_output_queue>>,
         execute'.pc \notin BodyPoints \cup {"update"} \/ UNCHANGED execute,
         UNCHANGED stopping
  PROVE  ModeInv'
  BY DEF ModeInv, StopFlags, Modes, IsMtpSerialFastPath, stopping

\* Execute goes only through the points of its own mode.
LEMMA ModeExecute == ThreadInv /\ ModeInv /\ Execute => ModeInv'
  <1> SUFFICES ASSUME ThreadInv, ModeInv, Execute PROVE ModeInv'
    OBVIOUS
  <1>1. execute \in Thread
    BY DEF ThreadInv, Shape
  <1>2. CASE ExecuteGet
    BY <1>2, DoneShape
    DEF ExecuteGet, GetFrom, At, ModeInv, StopFlags, Modes, BodyPoints,
        IsMtpSerialFastPath, engine, stopping
  <1>3. CASE ExecuteUpdate \/ ExecuteBegin \/ ExecuteWait \/ ExecuteLock
    <2>1. execute'.pc \in {"begin", "wait", "lock", "forward", "done"}
      BY <1>1, <1>3, DoneShape
      DEF ExecuteUpdate, ExecuteBegin, ExecuteWait, ExecuteLock, Thread
    <2>2. UNCHANGED <<runner, postprocess, report, model_output_queue,
                      sampling_output_queue, stopping>>
      BY <1>3 DEF ExecuteUpdate, ExecuteBegin, ExecuteWait, ExecuteLock, engine,
                  queues
    <2> QED BY <2>1, <2>2, ModeFrame DEF BodyPoints
  <1>4. CASE ExecuteForwarded
    BY <1>1, <1>4, DoneShape, NextIterationShape
    DEF ExecuteForwarded, ModeInv, StopFlags, Modes, BodyPoints, Thread,
        IsMtpSerialFastPath, engine, stopping
  <1>5. CASE PostprocessSample(TRUE) \/ PostprocessMtpLock(TRUE)
               \/ PostprocessMtpForwarded(TRUE)
    <2>1. execute.pc \in BodyPoints /\ execute'.pc \in BodyPoints
      BY <1>1, <1>5
      DEF PostprocessSample, PostprocessMtpLock, PostprocessMtpForwarded, Body,
          Sets, BodyPoints, Thread
    <2>2. UNCHANGED <<runner, postprocess, report, model_output_queue,
                      sampling_output_queue, stopping>>
      BY <1>5
      DEF PostprocessSample, PostprocessMtpLock, PostprocessMtpForwarded, Sets,
          engine, queues
    <2> QED BY <2>1, <2>2
         DEF ModeInv, StopFlags, Modes, BodyPoints, stopping,
             IsMtpSerialFastPath
  <1>6. CASE PostprocessAnswer(TRUE)
    BY <1>1, <1>6, NextIterationShape
    DEF PostprocessAnswer, Body, Sets, PutTo, ModeInv, StopFlags, Modes,
        BodyPoints, engine, stopping
  <1> QED BY <1>2, <1>3, <1>4, <1>5, <1>6 DEF Execute

\* No step starts to use one that the mode does not have.
LEMMA ModeStep == ThreadInv /\ ModeInv /\ [Next]_vars => ModeInv'
  <1> SUFFICES ASSUME ThreadInv, ModeInv, [Next]_vars PROVE ModeInv'
    OBVIOUS
  <1>1. CASE EngineSends \/ Preprocess
    BY <1>1, ModeFrame
    DEF EngineSends, Preprocess, PreprocessGet, PreprocessWork, PreprocessPut,
        engine, queues
  <1>2. CASE Postprocess
    <2>1. postprocess # Done
      <3>1. postprocess.pc \in BodyPoints \cup {"get"}
        <4>1. PostprocessGet => postprocess.pc = "get"
          BY DEF PostprocessGet, GetFrom, AtGet, At
        <4>2. ~PostprocessGet => postprocess.pc \in BodyPoints
          BY <1>2
          DEF Postprocess, PostprocessSample, PostprocessMtpLock,
              PostprocessMtpForwarded, PostprocessAnswer, Body, BodyPoints
        <4> QED BY <4>1, <4>2
      <3> QED BY <3>1, DoneShape DEF BodyPoints
    <2>2. UNCHANGED <<runner, execute, report, sampling_output_queue, stopping>>
      BY <1>2
      DEF Postprocess, PostprocessGet, PostprocessSample, PostprocessMtpLock,
          PostprocessMtpForwarded, PostprocessAnswer, Sets, engine, queues
    <2> QED BY <2>1, <2>2
         DEF ModeInv, StopFlags, Modes, IsMtpSerialFastPath, stopping
  <1>3. CASE Report
    <2>1. report # Done
      BY <1>3, DoneShape DEF Report, ReportGet, GetFrom, ReportSend, AtGet, At
    <2>2. UNCHANGED <<runner, execute, postprocess, model_output_queue, stopping>>
      BY <1>3 DEF Report, ReportGet, ReportSend, engine, queues
    <2> QED BY <2>1, <2>2
         DEF ModeInv, StopFlags, Modes, IsMtpSerialFastPath, stopping
  <1>4. CASE StopCalled \/ Stop
    BY <1>4
    DEF StopCalled, Stop, StopNext, StopJoin, StopOrder, ModeInv, StopFlags,
        Modes, IsMtpSerialFastPath, engine, queues, Joined, Joining
  <1>5. CASE UNCHANGED vars
    BY <1>5 DEF vars, ModeInv, StopFlags, Modes, IsMtpSerialFastPath, engine,
                queues, stopping
  <1> QED BY <1>1, <1>2, <1>3, <1>4, <1>5, ModeExecute DEF Next

-----------------------------------------------------------------------------
(* Hidden unit buffers and epochs *)

Elements(queue) == {queue[i] : i \in DOMAIN queue}

\* Putting a step into a queue adds it to the steps in there.
LEMMA ElementsAppend ==
  ASSUME NEW queue \in Seq(Nat), NEW step \in Nat
  PROVE  Elements(Append(queue, step)) = Elements(queue) \cup {step}
  <1> DEFINE n == Len(queue)
             longer == Append(queue, step)
  <1>1. /\ n \in Nat /\ DOMAIN queue = 1..n /\ DOMAIN longer = 1..n + 1
        /\ \A i \in 1..n : longer[i] = queue[i]
        /\ longer[n + 1] = step
    BY AppendProperties, LenProperties
  <1> HIDE DEF longer, n
  <1>2. \A i \in 1..n + 1 : i \in 1..n \/ i = n + 1
    BY <1>1
  <1>3. 1..n \subseteq 1..n + 1 /\ n + 1 \in 1..n + 1
    BY <1>1
  <1>4. Elements(longer) = Elements(queue) \cup {step}
    BY <1>1, <1>2, <1>3, Zenon DEF Elements
  <1> QED BY <1>4 DEF longer

\* The steps in a queue are the first and those behind it.
LEMMA ElementsTail ==
  ASSUME NEW queue \in Seq(Nat), queue # <<>>
  PROVE  Elements(queue) = {Head(queue)} \cup Elements(Tail(queue))
  <1>1. /\ Len(queue) \in Nat \ {0} /\ Head(queue) = queue[1]
        /\ Tail(queue) \in Seq(Nat) /\ Len(Tail(queue)) = Len(queue) - 1
        /\ \A i \in 1..Len(Tail(queue)) : Tail(queue)[i] = queue[i + 1]
    BY HeadTailProperties, EmptySeq
  <1>2. DOMAIN queue = 1..Len(queue) /\ DOMAIN Tail(queue) = 1..Len(Tail(queue))
    BY <1>1
  <1>3. ASSUME NEW i \in DOMAIN queue, i # 1
        PROVE  i - 1 \in DOMAIN Tail(queue) /\ queue[i] = Tail(queue)[i - 1]
    <2>1. i \in 2..Len(queue)
      BY <1>1, <1>2, <1>3
    <2>2. i - 1 \in 1..Len(Tail(queue)) /\ (i - 1) + 1 = i
      BY <1>1, <2>1
    <2>3. Tail(queue)[i - 1] = queue[(i - 1) + 1]
      BY <1>1, <2>2
    <2> QED BY <1>2, <2>2, <2>3
  <1>4. ASSUME NEW i \in DOMAIN Tail(queue)
        PROVE  i + 1 \in DOMAIN queue /\ queue[i + 1] = Tail(queue)[i]
    BY <1>1, <1>2
  <1>5. 1 \in DOMAIN queue
    BY <1>1, <1>2
  <1>6. ASSUME NEW i \in DOMAIN queue
        PROVE  queue[i] \in {Head(queue)} \cup Elements(Tail(queue))
    <2>1. CASE i = 1
      BY <1>1, <2>1
    <2>2. CASE i # 1
      BY <1>3, <2>2 DEF Elements
    <2> QED BY <2>1, <2>2
  <1>7. {Head(queue)} \cup Elements(Tail(queue)) \subseteq Elements(queue)
    BY <1>1, <1>4, <1>5 DEF Elements
  <1> QED BY <1>6, <1>7 DEF Elements

\* A step has its buffer from BeginBatch until FreeBuffer: in the hands of
\* Execute or of Postprocess, or in the queue between them. HeldIsInFlight is
\* not inductive: it does not say that a thread has let go of what it had.
Holding(thread, points) ==
  IF thread.pc \in points THEN {thread.step} ELSE {}

InHands ==
  Holding(execute, {"wait", "lock", "forward"} \cup BodyPoints)
    \cup Holding(postprocess, BodyPoints) \cup Elements(model_output_queue)

HeldInHands == ~terminated => held \subseteq InHands

\* What is held stays in hands that do not move.
LEMMA HeldFrame ==
  ASSUME HeldInHands, terminated' \/ UNCHANGED terminated,
         UNCHANGED <<held, execute, postprocess, model_output_queue>>
  PROVE  HeldInHands'
  BY DEF HeldInHands, InHands, Holding, Elements

\* Up to Forward what is held of a step is in the hands of Execute.
LEMMA HeldExecute ==
  ASSUME ThreadInv, ModeInv, HeldInHands,
         ExecuteGet \/ ExecuteUpdate \/ ExecuteBegin \/ ExecuteWait
           \/ ExecuteLock
  PROVE  HeldInHands'
  <1>1. execute \in Thread
    BY DEF ThreadInv, Shape
  <1>2. UNCHANGED <<postprocess, model_output_queue, terminated>>
    BY DEF ExecuteGet, ExecuteUpdate, ExecuteBegin, ExecuteWait, ExecuteLock,
           queues, stopping
  <1>3. CASE ExecuteGet \/ ExecuteUpdate
    <2>1. execute.pc \in {"get", "update"} /\ held' = held
      BY <1>3 DEF ExecuteGet, GetFrom, ExecuteUpdate, AtGet, At
    <2>2. Holding(execute, {"wait", "lock", "forward"} \cup BodyPoints) = {}
      BY <2>1 DEF Holding, BodyPoints
    <2> QED BY <1>2, <2>1, <2>2 DEF HeldInHands, InHands, Holding, Elements
  <1>4. CASE ExecuteBegin \/ ExecuteWait \/ ExecuteLock
    <2>1. /\ execute' \in Thread /\ execute'.step = execute.step
          /\ execute'.pc \in {"wait", "lock", "forward"}
      BY <1>1, <1>4
      DEF ExecuteBegin, ExecuteWait, ExecuteLock, Thread, Points
    <2>2. held' \subseteq held \cup {execute.step}
      BY <1>4 DEF ExecuteBegin, ExecuteWait, ExecuteLock
    <2>3. Holding(execute', {"wait", "lock", "forward"} \cup BodyPoints)
            = {execute.step}
      BY <2>1 DEF Holding
    <2>4. Holding(execute, {"wait", "lock", "forward"} \cup BodyPoints)
            \subseteq {execute.step}
      BY DEF Holding
    <2> QED BY <1>2, <2>2, <2>3, <2>4
         DEF HeldInHands, InHands, Holding, Elements
  <1> QED BY <1>3, <1>4

\* Behind Forward it goes with the step, into the queue or on to sampling.
LEMMA HeldForwarded ==
  ASSUME ThreadInv, ModeInv, HeldInHands, ExecuteForwarded
  PROVE  HeldInHands'
  <1>1. /\ execute \in Thread /\ execute.step \in Nat
        /\ model_output_queue \in Seq(Nat)
    BY StepIsNat DEF ThreadInv, Shape
  <1>2. UNCHANGED <<postprocess, terminated, stopped>>
    BY DEF ExecuteForwarded, stopping
  <1>3. SUFFICES ASSUME ~terminated PROVE held' \subseteq InHands'
    BY <1>2 DEF HeldInHands
  <1>4. stopped = {}
    BY <1>3 DEF ModeInv, StopFlags
  <1>5. held \subseteq {execute.step} \cup Holding(postprocess, BodyPoints)
                         \cup Elements(model_output_queue)
    BY <1>3 DEF HeldInHands, InHands, Holding
  <1>6. CASE ~runner.sampling
    BY <1>2, <1>5, <1>6
    DEF ExecuteForwarded, Freed, InHands, Holding, Elements
  <1>7. CASE runner.sampling /\ runner.fast
    <2>1. /\ held' = held /\ model_output_queue' = model_output_queue
          /\ execute' = [execute EXCEPT !.pc = "sample"]
      BY <1>3, <1>7 DEF ExecuteForwarded
    <2>2. execute'.pc \in BodyPoints /\ execute'.step = execute.step
      BY <1>1, <2>1 DEF Thread, BodyPoints
    <2> QED BY <1>2, <1>5, <2>1, <2>2 DEF InHands, Holding, Elements
  <1>8. CASE runner.sampling /\ ~runner.fast
    <2>1. /\ held' = held
          /\ model_output_queue' = Append(model_output_queue, execute.step)
      BY <1>4, <1>8 DEF ExecuteForwarded, PutTo
    <2>2. Elements(model_output_queue')
            = Elements(model_output_queue) \cup {execute.step}
      BY <1>1, <2>1, ElementsAppend
    <2> QED BY <1>2, <1>5, <2>1, <2>2 DEF InHands, Holding
  <1> QED BY <1>6, <1>7, <1>8

\* Postprocess takes it over with the step.
LEMMA HeldPostprocessGet ==
  ASSUME ThreadInv, HeldInHands, PostprocessGet
  PROVE  HeldInHands'
  <1>1. /\ postprocess.pc = "get" /\ UNCHANGED <<held, execute, terminated>>
        /\ model_output_queue \in Seq(Nat)
    BY DEF PostprocessGet, GetFrom, AtGet, At, stopping, ThreadInv, Shape
  <1>2. Holding(postprocess, BodyPoints) = {}
    BY <1>1 DEF Holding, BodyPoints
  <1>3. CASE model_output_queue # <<>>
             /\ postprocess' = At("sample", Head(model_output_queue))
             /\ model_output_queue' = Tail(model_output_queue)
    <2>1. Holding(postprocess', BodyPoints) = {Head(model_output_queue)}
      BY <1>3 DEF Holding, BodyPoints, At
    <2>2. Elements(model_output_queue)
            = {Head(model_output_queue)} \cup Elements(model_output_queue')
      BY <1>1, <1>3, ElementsTail
    <2> QED BY <1>1, <1>2, <2>1, <2>2 DEF HeldInHands, InHands, Holding
  <1>4. CASE UNCHANGED model_output_queue
    BY <1>1, <1>2, <1>4 DEF HeldInHands, InHands, Holding, Elements
  <1> QED BY <1>3, <1>4 DEF PostprocessGet, GetFrom

\* It is given back at the latest with the answer.
LEMMA HeldBody ==
  ASSUME ThreadInv, HeldInHands, NEW inline \in BOOLEAN,
         \/ PostprocessSample(inline) \/ PostprocessMtpLock(inline)
         \/ PostprocessMtpForwarded(inline) \/ PostprocessAnswer(inline)
  PROVE  HeldInHands'
  <1> DEFINE me == Body(inline)
             me_next == IF inline THEN execute' ELSE postprocess'
             Other == (IF inline THEN Holding(postprocess, BodyPoints)
                       ELSE Holding(execute, {"wait", "lock", "forward"}
                                               \cup BodyPoints))
                        \cup Elements(model_output_queue)
  <1>1. /\ me \in Thread /\ me.pc \in BodyPoints
        /\ UNCHANGED <<model_output_queue, terminated>>
        /\ IF inline THEN UNCHANGED postprocess ELSE UNCHANGED execute
    BY DEF PostprocessSample, PostprocessMtpLock, PostprocessMtpForwarded,
           PostprocessAnswer, Body, Sets, BodyPoints, ThreadInv, Shape, queues,
           stopping
  <1>2. InHands = Other \cup {me.step}
    BY <1>1 DEF InHands, Holding, Body
  <1>3. CASE PostprocessAnswer(inline)
    <2>1. held' = held \ {me.step}
      BY <1>3 DEF PostprocessAnswer, Freed
    <2>2. Other \subseteq InHands'
      BY <1>1 DEF InHands, Holding, Elements
    <2> QED BY <1>1, <1>2, <2>1, <2>2 DEF HeldInHands
  <1>4. CASE ~PostprocessAnswer(inline)
    <2>1. held' = held
      BY <1>4 DEF PostprocessSample, PostprocessMtpLock, PostprocessMtpForwarded
    <2>2. me_next.pc \in BodyPoints /\ me_next.step = me.step
      BY <1>1, <1>4
      DEF PostprocessSample, PostprocessMtpLock, PostprocessMtpForwarded, Sets,
          BodyPoints, Thread
    <2>3. InHands' = Other \cup {me.step}
      BY <1>1, <2>2 DEF InHands, Holding, Elements
    <2> QED BY <1>1, <1>2, <2>1, <2>3 DEF HeldInHands
  <1> QED BY <1>3, <1>4

\* At the start nothing is held.
LEMMA HeldInit == Init => HeldInHands
  BY DEF Init, HeldInHands

\* No step leaves behind what is held of one that is over.
LEMMA HeldStep ==
  ThreadInv /\ ModeInv /\ HeldInHands /\ [Next]_vars => HeldInHands'
  <1> SUFFICES ASSUME ThreadInv, ModeInv, HeldInHands, [Next]_vars
               PROVE  HeldInHands'
    OBVIOUS
  <1>1. CASE EngineSends \/ Preprocess \/ Report
    BY <1>1, HeldFrame
    DEF EngineSends, Preprocess, PreprocessGet, PreprocessWork, PreprocessPut,
        Report, ReportGet, ReportSend, queues, stopping
  <1>2. CASE Execute
    BY <1>2, HeldExecute, HeldForwarded, HeldBody DEF Execute
  <1>3. CASE Postprocess
    BY <1>3, HeldPostprocessGet, HeldBody DEF Postprocess
  <1>4. CASE StopCalled \/ Stop
    BY <1>4, HeldFrame DEF StopCalled, Stop, StopNext, StopJoin, queues
  <1>5. CASE UNCHANGED vars
    BY <1>5, HeldFrame DEF vars, queues, stopping
  <1> QED BY <1>1, <1>2, <1>3, <1>4, <1>5 DEF Next
-----------------------------------------------------------------------------
(* The cached requests *)

\* On the MTP serial path Execute updates them for its own step.
CacheSerial ==
  IsMtpSerialFastPath =>
    (execute.pc \notin {"get", "update", "done"} => cached = execute.step)

\* Elsewhere Preprocess does, and where one step is in flight it is that one,
\* wherever between Preprocess and the answer it is.
OneAhead == ~IsMtpSerialFastPath /\ Answering /\ runner.depth = 1

CacheAlone ==
  OneAhead =>
    /\ preprocess.pc = "put" => preprocess.step = cached
    /\ Elements(model_input_queue) \subseteq {cached}
    /\ Elements(model_output_queue) \subseteq {cached}
    /\ Busy(execute) = 1 => execute.step = cached
    /\ Busy(postprocess) = 1 => postprocess.step = cached

CacheInv == CacheSerial /\ CacheAlone

\* With one step in flight, the step that Preprocess has is the only one.
LEMMA Alone ==
  ASSUME ThreadInv, Answering, runner.depth = 1, Busy(preprocess) = 1
  PROVE  /\ model_input_queue = <<>> /\ model_output_queue = <<>>
         /\ Busy(execute) = 0 /\ Busy(postprocess) = 0
  <1>1. Underway <= 1
    <2>1. Underway \in Int /\ sent - Len(answers) \in Int
      BY DEF ThreadInv, Shape, Underway, Busy
    <2> QED BY <2>1 DEF ThreadInv, Counted
  <1>2. /\ Len(schedule_output_queue) \in Nat /\ Len(model_input_queue) \in Nat
        /\ Len(model_output_queue) \in Nat /\ Len(sampling_output_queue) \in Nat
        /\ Busy(execute) \in {0, 1} /\ Busy(postprocess) \in {0, 1}
        /\ Busy(report) \in {0, 1}
    BY DEF ThreadInv, Shape, Busy
  <1>3. /\ Len(model_input_queue) = 0 /\ Len(model_output_queue) = 0
        /\ Busy(execute) = 0 /\ Busy(postprocess) = 0
    BY <1>1, <1>2 DEF Underway
  <1> QED BY <1>3, EmptySeq DEF ThreadInv, Shape

\* At the start no thread has a step to find the wrong requests cached.
LEMMA CacheInit == Init => CacheInv
  BY DEF Init, CacheInv, CacheSerial, CacheAlone, OneAhead, Elements, AtGet,
         Done, At, Busy, HasPostprocessThread

\* Who leaves the cache and the step of each thread alone.
LEMMA CacheFrame ==
  ASSUME CacheInv,
         UNCHANGED <<runner, cached, execute, postprocess, model_input_queue,
                     model_output_queue>>,
         UNCHANGED preprocess \/ preprocess'.pc # "put"
  PROVE  CacheInv'
  BY DEF CacheInv, CacheSerial, CacheAlone, OneAhead, IsMtpSerialFastPath,
         Answering, Elements, Busy

\* With one step in flight, Preprocess updates the cached requests when nobody
\* else has a step.
LEMMA CachePreprocess ==
  ASSUME ThreadInv, CacheInv, Preprocess
  PROVE  CacheInv'
  <1>1. /\ preprocess \in Thread /\ preprocess.step \in Nat
        /\ model_input_queue \in Seq(Nat)
    BY StepIsNat DEF ThreadInv, Shape
  <1>2. CASE PreprocessGet
    <2>1. preprocess'.pc # "put"
      BY <1>2, DoneShape DEF PreprocessGet, GetFrom, At
    <2> QED BY <1>2, <2>1, CacheFrame DEF PreprocessGet, engine
  <1>3. CASE PreprocessWork
    <2>1. /\ UNCHANGED <<runner, execute, postprocess, model_input_queue,
                         model_output_queue>>
          /\ cached' = IF UpdatesCachedAhead THEN preprocess.step ELSE cached
          /\ preprocess'.pc = "put" => preprocess'.step = preprocess.step
          /\ preprocess.pc = "work"
      BY <1>1, <1>3, DoneShape DEF PreprocessWork, Thread, engine, queues
    <2>2. CacheSerial'
      BY <2>1
      DEF CacheInv, CacheSerial, UpdatesCachedAhead, IsMtpSerialFastPath
    <2>3. ASSUME OneAhead'
          PROVE  /\ model_input_queue = <<>> /\ model_output_queue = <<>>
                 /\ Busy(execute) = 0 /\ Busy(postprocess) = 0
                 /\ cached' = preprocess.step
      <3>1. OneAhead
        BY <2>1, <2>3 DEF OneAhead, IsMtpSerialFastPath, Answering
      <3>2. Busy(preprocess) = 1
        BY <2>1 DEF Busy
      <3>3. /\ model_input_queue = <<>> /\ model_output_queue = <<>>
            /\ Busy(execute) = 0 /\ Busy(postprocess) = 0
        BY <3>1, <3>2, Alone DEF OneAhead
      <3> QED BY <2>1, <3>1, <3>3 DEF UpdatesCachedAhead, OneAhead
    <2>4. CacheAlone'
      BY <2>1, <2>3 DEF CacheAlone, Elements, Busy
    <2> QED BY <2>2, <2>4 DEF CacheInv
  <1>4. CASE PreprocessPut
    <2>1. /\ UNCHANGED <<runner, cached, execute, postprocess,
                         model_output_queue>>
          /\ preprocess'.pc # "put" /\ preprocess.pc = "put"
          /\ \/ UNCHANGED model_input_queue
             \/ model_input_queue' = Append(model_input_queue, preprocess.step)
      BY <1>4, NextIterationShape DEF PreprocessPut, PutTo, engine
    <2>2. CASE model_input_queue' = Append(model_input_queue, preprocess.step)
      <3>1. Elements(model_input_queue')
              = Elements(model_input_queue) \cup {preprocess.step}
        BY <1>1, <2>2, ElementsAppend
      <3> QED BY <2>1, <3>1
           DEF CacheInv, CacheSerial, CacheAlone, OneAhead,
               IsMtpSerialFastPath, Answering, Busy, Elements
    <2> QED BY <2>1, <2>2, CacheFrame
  <1> QED BY <1>2, <1>3, <1>4 DEF Preprocess

\* Execute takes a step, updates for it, or goes on with it.
LEMMA CacheExecute ==
  ASSUME ThreadInv, ModeInv, CacheInv,
         ExecuteGet \/ ExecuteUpdate \/ ExecuteBegin \/ ExecuteWait
           \/ ExecuteLock
  PROVE  CacheInv'
  <1>1. /\ execute \in Thread /\ model_input_queue \in Seq(Nat)
    BY DEF ThreadInv, Shape
  <1>2. UNCHANGED <<runner, preprocess, postprocess, model_output_queue>>
    BY DEF ExecuteGet, ExecuteUpdate, ExecuteBegin, ExecuteWait, ExecuteLock,
           engine, queues
  <1>3. CASE ExecuteGet
    <2>1. cached' = cached
      BY <1>3 DEF ExecuteGet
    <2>2. CASE model_input_queue # <<>>
               /\ execute' = At(IF IsMtpSerialFastPath THEN "update" ELSE "begin",
                                Head(model_input_queue))
               /\ model_input_queue' = Tail(model_input_queue)
      <3>1. Elements(model_input_queue)
              = {Head(model_input_queue)} \cup Elements(model_input_queue')
        BY <1>1, <2>2, ElementsTail
      <3>2. /\ execute'.step = Head(model_input_queue)
            /\ IsMtpSerialFastPath => execute'.pc = "update"
        BY <2>2 DEF At
      <3> QED BY <1>2, <2>1, <3>1, <3>2
           DEF CacheInv, CacheSerial, CacheAlone, OneAhead,
               IsMtpSerialFastPath, Answering, Busy, Elements
    <2>3. CASE execute' = Done /\ UNCHANGED model_input_queue
      BY <1>2, <2>1, <2>3, DoneShape
      DEF CacheInv, CacheSerial, CacheAlone, OneAhead, IsMtpSerialFastPath,
          Answering, Busy, Elements
    <2> QED BY <1>3, <2>2, <2>3 DEF ExecuteGet, GetFrom
  <1>4. CASE ExecuteUpdate
    <2>1. IsMtpSerialFastPath
      BY <1>4 DEF ExecuteUpdate, ModeInv, Modes
    <2>2. /\ cached' = execute.step
          /\ execute'.pc # "done" => execute'.step = execute.step
      BY <1>1, <1>4, DoneShape DEF ExecuteUpdate, Thread
    <2> QED BY <1>2, <2>1, <2>2
         DEF CacheInv, CacheSerial, CacheAlone, OneAhead, IsMtpSerialFastPath
  <1>5. CASE ExecuteBegin \/ ExecuteWait \/ ExecuteLock
    <2>1. /\ execute.pc \in {"begin", "wait", "lock"}
          /\ execute'.step = execute.step
          /\ UNCHANGED <<cached, model_input_queue>>
      BY <1>1, <1>5 DEF ExecuteBegin, ExecuteWait, ExecuteLock, Thread, queues
    <2> QED BY <1>2, <2>1
         DEF CacheInv, CacheSerial, CacheAlone, OneAhead, IsMtpSerialFastPath,
             Answering, Busy, Elements
  <1> QED BY <1>3, <1>4, <1>5

\* Behind Forward the step, and the cache with it, passes to Postprocess.
LEMMA CacheForwarded ==
  ASSUME ThreadInv, CacheInv, ExecuteForwarded
  PROVE  CacheInv'
  <1>1. /\ execute \in Thread /\ execute.step \in Nat
        /\ model_output_queue \in Seq(Nat) /\ execute.pc = "forward"
        /\ UNCHANGED <<runner, cached, preprocess, postprocess,
                       model_input_queue>>
    BY StepIsNat DEF ThreadInv, Shape, ExecuteForwarded, engine
  <1>2. execute'.pc \in {"get", "done"} \/ execute'.step = execute.step
    BY <1>1, DoneShape, NextIterationShape DEF ExecuteForwarded, Thread
  <1>3. OneAhead => execute.step = cached
    BY <1>1 DEF CacheInv, CacheAlone, Busy
  <1>4. \/ UNCHANGED model_output_queue
        \/ /\ model_output_queue' = Append(model_output_queue, execute.step)
           /\ Elements(model_output_queue')
                = Elements(model_output_queue) \cup {execute.step}
    BY <1>1, ElementsAppend DEF ExecuteForwarded, PutTo
  <1>5. OneAhead => Elements(model_output_queue') \subseteq {cached}
    BY <1>3, <1>4 DEF CacheInv, CacheAlone
  <1>6. CacheSerial'
    BY <1>1, <1>2 DEF CacheInv, CacheSerial, IsMtpSerialFastPath
  <1>7. CacheAlone'
    <2>1. SUFFICES ASSUME OneAhead' PROVE CacheAlone'
      BY DEF CacheAlone
    <2>2. OneAhead
      BY <1>1, <2>1 DEF OneAhead, IsMtpSerialFastPath, Answering
    <2>3. Busy(execute') = 1 => execute'.step = cached
      BY <1>2, <1>3, <2>2 DEF Busy
    <2>4. /\ preprocess.pc = "put" => preprocess.step = cached
          /\ Elements(model_input_queue) \subseteq {cached}
          /\ Elements(model_output_queue') \subseteq {cached}
          /\ Busy(postprocess) = 1 => postprocess.step = cached
      BY <1>5, <2>2 DEF CacheInv, CacheAlone
    <2> QED BY <1>1, <2>3, <2>4 DEF CacheAlone, Elements, Busy
  <1> QED BY <1>6, <1>7 DEF CacheInv

\* Postprocess finds the cache as Execute left it.
LEMMA CachePostprocessGet ==
  ASSUME ThreadInv, CacheInv, PostprocessGet
  PROVE  CacheInv'
  <1>1. /\ model_output_queue \in Seq(Nat)
        /\ UNCHANGED <<runner, cached, preprocess, execute, model_input_queue>>
    BY DEF ThreadInv, Shape, PostprocessGet, engine
  <1>2. CASE model_output_queue # <<>>
             /\ postprocess' = At("sample", Head(model_output_queue))
             /\ model_output_queue' = Tail(model_output_queue)
    <2>1. Elements(model_output_queue)
            = {Head(model_output_queue)} \cup Elements(model_output_queue')
      BY <1>1, <1>2, ElementsTail
    <2>2. postprocess'.step = Head(model_output_queue)
      BY <1>2 DEF At
    <2> QED BY <1>1, <2>1, <2>2
         DEF CacheInv, CacheSerial, CacheAlone, OneAhead, IsMtpSerialFastPath,
             Answering, Busy, Elements
  <1>3. CASE postprocess' = Done /\ UNCHANGED model_output_queue
    <2>1. Busy(postprocess') = 0
      BY <1>3, DoneShape
    <2>2. /\ Elements(model_output_queue') = Elements(model_output_queue)
          /\ Elements(model_input_queue') = Elements(model_input_queue)
          /\ Busy(execute') = Busy(execute)
      BY <1>1, <1>3 DEF Elements, Busy
    <2>3. CacheSerial'
      BY <1>1 DEF CacheInv, CacheSerial, IsMtpSerialFastPath
    <2>4. CacheAlone'
      BY <1>1, <2>1, <2>2
      DEF CacheInv, CacheAlone, OneAhead, IsMtpSerialFastPath, Answering
    <2> QED BY <2>3, <2>4 DEF CacheInv
  <1> QED BY <1>2, <1>3 DEF PostprocessGet, GetFrom

\* Sampling and answering leave the cache to their step.
LEMMA CacheBody ==
  ASSUME ThreadInv, CacheInv, NEW inline \in BOOLEAN,
         \/ PostprocessSample(inline) \/ PostprocessMtpLock(inline)
         \/ PostprocessMtpForwarded(inline) \/ PostprocessAnswer(inline)
  PROVE  CacheInv'
  <1> DEFINE me == Body(inline)
             me_next == IF inline THEN execute' ELSE postprocess'
  <1>1. /\ me \in Thread /\ me.pc \in BodyPoints
        /\ UNCHANGED <<runner, cached, preprocess, model_input_queue,
                       model_output_queue>>
        /\ IF inline THEN UNCHANGED postprocess ELSE UNCHANGED execute
    BY DEF PostprocessSample, PostprocessMtpLock, PostprocessMtpForwarded,
           PostprocessAnswer, Body, Sets, BodyPoints, ThreadInv, Shape, queues,
           engine
  <1>2. me_next.step = me.step \/ me_next.pc \in {"get", "done"}
    BY <1>1, NextIterationShape
    DEF PostprocessSample, PostprocessMtpLock, PostprocessMtpForwarded,
        PostprocessAnswer, Sets, Thread
  <1>3. CacheSerial'
    BY <1>1, <1>2
    DEF CacheInv, CacheSerial, IsMtpSerialFastPath, Body, BodyPoints
  <1>4. CacheAlone'
    <2>1. Busy(me) = 1
      BY <1>1 DEF Busy, BodyPoints
    <2>2. me_next.step = me.step \/ Busy(me_next) = 0
      BY <1>2 DEF Busy
    <2>3. SUFFICES ASSUME OneAhead' PROVE CacheAlone'
      BY DEF CacheAlone
    <2>4. OneAhead
      BY <1>1, <2>3 DEF OneAhead, IsMtpSerialFastPath, Answering
    <2>5. me.step = cached
      BY <2>1, <2>4 DEF CacheInv, CacheAlone, Body
    <2>6. Busy(me_next) = 1 => me_next.step = cached
      BY <2>2, <2>5
    <2>7. /\ Busy(execute') = 1 => execute'.step = cached
          /\ Busy(postprocess') = 1 => postprocess'.step = cached
      BY <1>1, <2>4, <2>6 DEF CacheInv, CacheAlone
    <2> QED BY <1>1, <2>4, <2>7 DEF CacheInv, CacheAlone, Elements, Busy
  <1> QED BY <1>3, <1>4 DEF CacheInv

\* Every step of every thread keeps the cache with the step that uses it.
LEMMA CacheStep ==
  ThreadInv /\ ModeInv /\ CacheInv /\ [Next]_vars => CacheInv'
  <1> SUFFICES ASSUME ThreadInv, ModeInv, CacheInv, [Next]_vars
               PROVE  CacheInv'
    OBVIOUS
  <1>1. CASE EngineSends \/ Report \/ StopCalled \/ Stop
    BY <1>1, CacheFrame
    DEF EngineSends, Report, ReportGet, ReportSend, StopCalled, Stop, StopNext,
        StopJoin, engine, queues
  <1>2. CASE Execute
    BY <1>2, CacheExecute, CacheForwarded, CacheBody DEF Execute
  <1>3. CASE Postprocess
    BY <1>3, CachePostprocessGet, CacheBody DEF Postprocess
  <1>4. CASE UNCHANGED vars
    BY <1>4, CacheFrame DEF vars, engine, queues
  <1> QED BY <1>1, <1>2, <1>3, <1>4, CachePreprocess DEF Next
-----------------------------------------------------------------------------
(* The order of the answers *)

\* Behind the last answer the numbers go on, without a gap, through every hand
\* and queue up to the steps that the Engine has just sent. A step is lost
\* only with the thread that had it (an error, or a Put to a stopped queue), so
\* nothing is known, or needed, of what comes behind a thread that is done.
Consecutive(queue, from) == \A i \in DOMAIN queue : queue[i] = from + i
Follows(thread, to) == Busy(thread) = 1 => thread.step = to

ToReport == Len(answers) + Busy(report)
ToPostprocess == ToReport + Len(sampling_output_queue) + Busy(postprocess)
ToExecute == ToPostprocess + Len(model_output_queue) + Busy(execute)
ToPreprocess == ToExecute + Len(model_input_queue) + Busy(preprocess)

ReportNumbered ==
  Follows(report, ToReport) /\ Consecutive(sampling_output_queue, ToReport)
PostprocessNumbered ==
  /\ Follows(postprocess, ToPostprocess)
  /\ Consecutive(model_output_queue, ToPostprocess)
ExecuteNumbered ==
  /\ Follows(execute, ToExecute)
  /\ execute.pc # "done" => Consecutive(model_input_queue, ToExecute)
PreprocessNumbered ==
  execute.pc # "done" =>
    /\ Follows(preprocess, ToPreprocess)
    /\ preprocess.pc # "done" =>
         /\ Consecutive(schedule_output_queue, ToPreprocess)
         /\ sent = ToPreprocess + Len(schedule_output_queue)

Numbered ==
  Answering => /\ Consecutive(answers, 0)
               /\ ReportNumbered /\ PostprocessNumbered
               /\ ExecuteNumbered /\ PreprocessNumbered

\* Consecutive numbers, and the next one.
LEMMA ConsecutiveAppend ==
  ASSUME NEW queue \in Seq(Nat), NEW from \in Nat,
         Consecutive(queue, from)
  PROVE  Consecutive(Append(queue, from + Len(queue) + 1), from)
  <1> DEFINE longer == Append(queue, from + Len(queue) + 1)
  <1>1. Len(queue) \in Nat /\ DOMAIN queue = 1..Len(queue)
    BY LenProperties
  <1>2. from + Len(queue) + 1 \in Nat
    BY <1>1
  <1>3. /\ longer \in Seq(Nat) /\ DOMAIN longer = 1..Len(queue) + 1
        /\ \A i \in 1..Len(queue) : longer[i] = queue[i]
        /\ longer[Len(queue) + 1] = from + Len(queue) + 1
    BY <1>2, AppendProperties, LenProperties
  <1> HIDE DEF longer
  <1>4. ASSUME NEW i \in DOMAIN longer PROVE longer[i] = from + i
    <2>1. CASE i \in 1..Len(queue)
      BY <1>1, <1>3, <2>1 DEF Consecutive
    <2>2. CASE i = Len(queue) + 1
      BY <1>1, <1>3, <2>2
    <2> QED BY <1>1, <1>3, <2>1, <2>2
  <1>5. Consecutive(longer, from)
    BY <1>4 DEF Consecutive
  <1> QED BY <1>5 DEF longer

\* Consecutive numbers without the first.
LEMMA ConsecutiveTail ==
  ASSUME NEW queue \in Seq(Nat), queue # <<>>, NEW from \in Nat,
         Consecutive(queue, from)
  PROVE  /\ Head(queue) = from + 1
         /\ Consecutive(Tail(queue), from + 1)
         /\ Len(Tail(queue)) = Len(queue) - 1
  <1>1. /\ Len(queue) \in Nat \ {0} /\ Head(queue) = queue[1]
        /\ DOMAIN queue = 1..Len(queue)
        /\ DOMAIN Tail(queue) = 1..Len(queue) - 1
        /\ Len(Tail(queue)) = Len(queue) - 1
        /\ \A i \in 1..Len(queue) - 1 : Tail(queue)[i] = queue[i + 1]
    BY HeadTailProperties, EmptySeq, LenProperties
  <1>2. Head(queue) = from + 1
    BY <1>1 DEF Consecutive
  <1>3. ASSUME NEW i \in 1..Len(queue) - 1
        PROVE  Tail(queue)[i] = (from + 1) + i
    <2>1. i + 1 \in 1..Len(queue)
      BY <1>1
    <2> QED BY <1>1, <2>1 DEF Consecutive
  <1> QED BY <1>1, <1>2, <1>3 DEF Consecutive

\* How many steps queues and threads hold are natural numbers.
LEMMA Counts ==
  ASSUME Shape
  PROVE  /\ Len(schedule_output_queue) \in Nat /\ Len(model_input_queue) \in Nat
         /\ Len(model_output_queue) \in Nat /\ Len(answers) \in Nat
         /\ Len(sampling_output_queue) \in Nat
         /\ Busy(preprocess) \in {0, 1} /\ Busy(execute) \in {0, 1}
         /\ Busy(postprocess) \in {0, 1} /\ Busy(report) \in {0, 1}
         /\ ToReport \in Nat /\ ToPostprocess \in Nat /\ ToExecute \in Nat
         /\ ToPreprocess \in Nat
  <1>1. /\ Len(schedule_output_queue) \in Nat /\ Len(model_input_queue) \in Nat
        /\ Len(model_output_queue) \in Nat /\ Len(answers) \in Nat
        /\ Len(sampling_output_queue) \in Nat
    BY LenProperties DEF Shape
  <1>2. /\ Busy(preprocess) \in {0, 1} /\ Busy(execute) \in {0, 1}
        /\ Busy(postprocess) \in {0, 1} /\ Busy(report) \in {0, 1}
    BY DEF Busy
  <1>3. ToReport \in Nat
    BY <1>1, <1>2 DEF ToReport
  <1>4. ToPostprocess \in Nat
    BY <1>1, <1>2, <1>3 DEF ToPostprocess
  <1>5. ToExecute \in Nat
    BY <1>1, <1>2, <1>4 DEF ToExecute
  <1>6. ToPreprocess \in Nat
    BY <1>1, <1>2, <1>5 DEF ToPreprocess
  <1> QED BY <1>1, <1>2, <1>3, <1>4, <1>5, <1>6

\* At the start there is nothing to number.
LEMMA NumberedInit == Init => Numbered
  <1> SUFFICES ASSUME Init PROVE Numbered
    OBVIOUS
  <1>1. /\ Busy(preprocess) = 0 /\ Busy(execute) = 0 /\ Busy(postprocess) = 0
        /\ Busy(report) = 0
    BY DoneShape DEF Init, AtGet, At, Busy
  <1> QED BY <1>1
       DEF Init, Numbered, ReportNumbered, PostprocessNumbered,
           ExecuteNumbered, PreprocessNumbered, Consecutive, Follows,
           ToReport, ToPostprocess, ToExecute, ToPreprocess

\* What a step that leaves a part of the row alone, and its number, shows.
LEMMA ReportFrame ==
  ReportNumbered /\ UNCHANGED <<report, sampling_output_queue, ToReport>>
    => ReportNumbered'
  BY DEF ReportNumbered, Follows, Consecutive, Busy

\* Who leaves Postprocess and its queue alone keeps its numbers.
LEMMA PostprocessFrame ==
  PostprocessNumbered
    /\ UNCHANGED <<postprocess, model_output_queue, ToPostprocess>>
    => PostprocessNumbered'
  BY DEF PostprocessNumbered, Follows, Consecutive, Busy

\* The same for Execute.
LEMMA ExecuteFrame ==
  ExecuteNumbered /\ UNCHANGED <<execute, model_input_queue, ToExecute>>
    => ExecuteNumbered'
  BY DEF ExecuteNumbered, Follows, Consecutive, Busy

\* The same for Preprocess.
LEMMA PreprocessFrame ==
  PreprocessNumbered
    /\ UNCHANGED <<preprocess, schedule_output_queue, sent, ToPreprocess>>
    /\ (execute'.pc = "done" \/ execute.pc # "done")
    => PreprocessNumbered'
  BY DEF PreprocessNumbered, Follows, Consecutive, Busy

\* Who leaves queues and threads alone keeps all numbers.
LEMMA NumberedFrame ==
  ASSUME Numbered,
         UNCHANGED <<engine, queues, preprocess, execute, postprocess, report,
                     answers>>
  PROVE  Numbered'
  BY DEF Numbered, ReportNumbered, PostprocessNumbered, ExecuteNumbered,
         PreprocessNumbered, Follows, Consecutive, Busy, Answering, ToReport,
         ToPostprocess, ToExecute, ToPreprocess, engine, queues

\* The Engine numbers a new step behind all others.
LEMMA NumberedEngineSends ==
  ASSUME ThreadInv, Numbered, EngineSends
  PROVE  Numbered'
  <1>1. /\ sent \in Nat /\ schedule_output_queue \in Seq(Nat)
        /\ sent' = sent + 1
        /\ schedule_output_queue' = Append(schedule_output_queue, sent + 1)
        /\ Len(schedule_output_queue') = Len(schedule_output_queue) + 1
        /\ UNCHANGED <<runner, answers, report, sampling_output_queue,
                       postprocess, model_output_queue, execute,
                       model_input_queue, preprocess>>
    BY AppendProperties DEF ThreadInv, Shape, EngineSends
  <1>2. UNCHANGED <<ToReport, ToPostprocess, ToExecute, ToPreprocess>>
    BY <1>1 DEF ToReport, ToPostprocess, ToExecute, ToPreprocess, Busy
  <1>3. SUFFICES ASSUME Answering PROVE Numbered'
    BY <1>1 DEF Numbered, Answering
  <1>4. PreprocessNumbered'
    <2>1. SUFFICES ASSUME execute.pc # "done", preprocess.pc # "done"
                   PROVE  /\ Consecutive(schedule_output_queue', ToPreprocess)
                          /\ sent' = ToPreprocess + Len(schedule_output_queue')
      BY <1>1, <1>2, <1>3 DEF Numbered, PreprocessNumbered, Follows, Busy
    <2>2. /\ Consecutive(schedule_output_queue, ToPreprocess)
          /\ sent = ToPreprocess + Len(schedule_output_queue)
          /\ ToPreprocess \in Nat /\ Len(schedule_output_queue) \in Nat
      BY <1>3, <2>1, Counts DEF Numbered, PreprocessNumbered, ThreadInv
    <2> QED BY <1>1, <2>2, ConsecutiveAppend
  <1> QED BY <1>1, <1>2, <1>3, <1>4, ReportFrame, PostprocessFrame, ExecuteFrame
       DEF Numbered, Consecutive

\* Preprocess passes its step on behind those that it passed on before.
LEMMA NumberedPreprocess ==
  ASSUME ThreadInv, ModeInv, Numbered, Preprocess
  PROVE  Numbered'
  <1>1. /\ preprocess \in Thread /\ preprocess.step \in Nat
        /\ schedule_output_queue \in Seq(Nat) /\ model_input_queue \in Seq(Nat)
        /\ UNCHANGED <<runner, sent, answers, report, sampling_output_queue,
                       postprocess, model_output_queue, execute>>
    BY StepIsNat
    DEF ThreadInv, Shape, Preprocess, PreprocessGet, PreprocessWork,
        PreprocessPut, engine, queues
  <1>2. UNCHANGED <<ToReport, ToPostprocess, ToExecute>>
    BY <1>1 DEF ToReport, ToPostprocess, ToExecute, Busy
  <1>3. SUFFICES ASSUME Answering PROVE ExecuteNumbered' /\ PreprocessNumbered'
    BY <1>1, <1>2, ReportFrame, PostprocessFrame
    DEF Numbered, Answering, Consecutive
  <1>4. /\ ToExecute \in Nat /\ ToPreprocess \in Nat
        /\ Len(model_input_queue) \in Nat /\ Len(schedule_output_queue) \in Nat
    BY Counts DEF ThreadInv
  <1>5. CASE PreprocessGet
    <2>1. Busy(preprocess) = 0 /\ preprocess.pc # "done"
          /\ UNCHANGED model_input_queue
      BY <1>5 DEF PreprocessGet, GetFrom, AtGet, At, Busy
    <2>2. ExecuteNumbered'
      BY <1>1, <1>2, <1>3, <2>1, ExecuteFrame DEF Numbered
    <2>3. ASSUME execute.pc # "done", schedule_output_queue # <<>>,
                 preprocess' = At("work", Head(schedule_output_queue)),
                 schedule_output_queue' = Tail(schedule_output_queue)
          PROVE  PreprocessNumbered'
      <3>1. /\ Consecutive(schedule_output_queue, ToPreprocess)
            /\ sent = ToPreprocess + Len(schedule_output_queue)
        BY <1>3, <2>1, <2>3 DEF Numbered, PreprocessNumbered
      <3>2. /\ preprocess'.step = ToPreprocess + 1
            /\ Consecutive(schedule_output_queue', ToPreprocess + 1)
            /\ Len(schedule_output_queue') = Len(schedule_output_queue) - 1
            /\ Busy(preprocess') = 1
        BY <1>1, <1>4, <2>3, <3>1, ConsecutiveTail DEF At, Busy
      <3>3. ToPreprocess' = ToPreprocess + 1
        BY <1>2, <1>4, <2>1, <3>2 DEF ToPreprocess
      <3> QED BY <1>1, <1>4, <3>1, <3>2, <3>3 DEF PreprocessNumbered, Follows
    <2>4. ASSUME preprocess' = Done PROVE PreprocessNumbered'
      BY <2>4, DoneShape DEF PreprocessNumbered, Follows
    <2>5. execute.pc = "done" => PreprocessNumbered'
      BY <1>1 DEF PreprocessNumbered
    <2> QED BY <1>5, <2>2, <2>3, <2>4, <2>5 DEF PreprocessGet, GetFrom
  <1>6. CASE PreprocessWork
    <2>1. UNCHANGED <<model_input_queue, schedule_output_queue>>
      BY <1>6 DEF PreprocessWork, queues
    <2>2. ExecuteNumbered'
      BY <1>1, <1>2, <1>3, <2>1, ExecuteFrame DEF Numbered
    <2>3. CASE preprocess' = [preprocess EXCEPT !.pc = "put"]
      <3>1. /\ Busy(preprocess) = 1 /\ Busy(preprocess') = 1
            /\ preprocess'.step = preprocess.step /\ preprocess.pc # "done"
        BY <1>1, <1>6, <2>3 DEF PreprocessWork, Busy, Thread
      <3>2. ToPreprocess' = ToPreprocess
        BY <1>2, <2>1, <3>1 DEF ToPreprocess
      <3> QED BY <1>1, <1>3, <2>1, <2>2, <3>1, <3>2
           DEF Numbered, PreprocessNumbered, Follows, Consecutive
    <2>4. CASE preprocess' = Done
      BY <2>2, <2>4, DoneShape DEF PreprocessNumbered, Follows
    <2> QED BY <1>6, <2>2, <2>3, <2>4 DEF PreprocessWork
  <1>7. CASE PreprocessPut
    <2>1. /\ Busy(preprocess) = 1 /\ Busy(preprocess') = 0
          /\ preprocess.pc # "done" /\ UNCHANGED schedule_output_queue
      BY <1>7, NextIterationShape DEF PreprocessPut, Busy
    <2>2. CASE "model_input_queue" \in stopped
      <3>1. UNCHANGED model_input_queue /\ preprocess'.pc = "done"
        BY <1>7, <2>2, DoneShape
        DEF PreprocessPut, PutTo, NextIteration, ModeInv, StopFlags
      <3>2. ExecuteNumbered'
        BY <1>1, <1>2, <1>3, <3>1, ExecuteFrame DEF Numbered
      <3>3. PreprocessNumbered'
        BY <2>1, <3>1 DEF PreprocessNumbered, Follows
      <3> QED BY <3>2, <3>3
    <2>3. CASE execute.pc = "done"
      BY <1>1, <1>2, <1>3, <2>3
      DEF Numbered, ExecuteNumbered, PreprocessNumbered, Follows, Busy
    <2>4. CASE "model_input_queue" \notin stopped /\ execute.pc # "done"
      <3>1. /\ model_input_queue' = Append(model_input_queue, preprocess.step)
            /\ preprocess.step = ToExecute + Len(model_input_queue) + 1
            /\ Consecutive(model_input_queue, ToExecute)
        BY <1>3, <1>4, <1>7, <2>1, <2>4
        DEF PreprocessPut, PutTo, Numbered, ExecuteNumbered, PreprocessNumbered,
            Follows, ToPreprocess
      <3>2. /\ Consecutive(model_input_queue', ToExecute)
            /\ Len(model_input_queue') = Len(model_input_queue) + 1
        BY <1>1, <1>4, <3>1, ConsecutiveAppend, AppendProperties
      <3>3. ToPreprocess' = ToPreprocess
        BY <1>2, <1>4, <2>1, <3>2 DEF ToPreprocess
      <3>4. ExecuteNumbered'
        BY <1>1, <1>2, <1>3, <3>2
        DEF Numbered, ExecuteNumbered, Follows, Busy
      <3>5. PreprocessNumbered'
        BY <1>1, <1>3, <2>1, <3>3
        DEF Numbered, PreprocessNumbered, Follows, Consecutive
      <3> QED BY <3>4, <3>5
    <2> QED BY <2>2, <2>3, <2>4
  <1> QED BY <1>5, <1>6, <1>7 DEF Preprocess
\* Execute takes the next step, goes on with it, or ends.
LEMMA NumberedExecute ==
  ASSUME ThreadInv, Numbered,
         ExecuteGet \/ ExecuteUpdate \/ ExecuteBegin \/ ExecuteWait
           \/ ExecuteLock
  PROVE  Numbered'
  <1>1. /\ execute \in Thread /\ model_input_queue \in Seq(Nat)
        /\ execute.pc # "done"
        /\ UNCHANGED <<runner, sent, answers, report, sampling_output_queue,
                       postprocess, model_output_queue, preprocess,
                       schedule_output_queue>>
    BY DEF ThreadInv, Shape, ExecuteGet, ExecuteUpdate, ExecuteBegin,
           ExecuteWait, ExecuteLock, GetFrom, AtGet, At, engine, queues
  <1>2. UNCHANGED <<ToReport, ToPostprocess>>
    BY <1>1 DEF ToReport, ToPostprocess, Busy
  <1>3. SUFFICES ASSUME Answering PROVE ExecuteNumbered' /\ PreprocessNumbered'
    BY <1>1, <1>2, ReportFrame, PostprocessFrame
    DEF Numbered, Answering, Consecutive
  <1>4. /\ ToPostprocess \in Nat /\ ToExecute \in Nat
        /\ Len(model_output_queue) \in Nat /\ Len(model_input_queue) \in Nat
        /\ Busy(preprocess) \in {0, 1} /\ Busy(preprocess') = Busy(preprocess)
    BY <1>1, Counts DEF ThreadInv
  <1>5. CASE execute' = Done
    BY <1>5, DoneShape DEF ExecuteNumbered, PreprocessNumbered, Follows
  <1>6. CASE ExecuteGet /\ execute' # Done
    <2>1. /\ Busy(execute) = 0 /\ model_input_queue # <<>>
          /\ model_input_queue' = Tail(model_input_queue)
          /\ execute'.step = Head(model_input_queue)
          /\ execute'.pc \in {"update", "begin"}
      BY <1>6 DEF ExecuteGet, GetFrom, AtGet, At, Busy
    <2>2. Consecutive(model_input_queue, ToExecute)
      BY <1>1, <1>3 DEF Numbered, ExecuteNumbered
    <2>3. /\ execute'.step = ToExecute + 1
          /\ Consecutive(model_input_queue', ToExecute + 1)
          /\ Len(model_input_queue') = Len(model_input_queue) - 1
          /\ Busy(execute') = 1
      BY <1>1, <1>4, <2>1, <2>2, ConsecutiveTail DEF Busy
    <2>4. ToExecute' = ToExecute + 1
      BY <1>1, <1>2, <1>4, <2>1, <2>3 DEF ToExecute
    <2>5. ToPreprocess' = ToPreprocess
      BY <1>4, <2>3, <2>4 DEF ToPreprocess
    <2>6. ExecuteNumbered'
      BY <2>3, <2>4 DEF ExecuteNumbered, Follows
    <2>7. PreprocessNumbered'
      BY <1>1, <1>3, <2>5, PreprocessFrame DEF Numbered
    <2> QED BY <2>6, <2>7
  <1>7. CASE ~ExecuteGet /\ execute' # Done
    <2>1. /\ execute.pc \in {"update", "begin", "wait", "lock"}
          /\ execute'.pc \in {"begin", "wait", "lock", "forward"}
          /\ execute'.step = execute.step
          /\ UNCHANGED model_input_queue
      BY <1>1, <1>7
      DEF ExecuteUpdate, ExecuteBegin, ExecuteWait, ExecuteLock, Thread, queues
    <2>2. Busy(execute) = 1 /\ Busy(execute') = 1 /\ execute'.pc # "done"
      BY <2>1 DEF Busy
    <2>3. UNCHANGED <<ToExecute, ToPreprocess>>
      BY <1>1, <1>2, <1>4, <2>1, <2>2 DEF ToExecute, ToPreprocess
    <2>4. ExecuteNumbered'
      BY <1>1, <1>3, <2>1, <2>2, <2>3
      DEF Numbered, ExecuteNumbered, Follows, Consecutive
    <2>5. PreprocessNumbered'
      BY <1>1, <1>3, <2>3, PreprocessFrame DEF Numbered
    <2> QED BY <2>4, <2>5
  <1> QED BY <1>5, <1>6, <1>7

\* The step is passed on in its turn, kept for the inline body, or lost with the
\* thread.
LEMMA NumberedForwarded ==
  ASSUME ThreadInv, ModeInv, Numbered, ExecuteForwarded
  PROVE  Numbered'
  <1>1. /\ execute \in Thread /\ execute.step \in Nat
        /\ model_output_queue \in Seq(Nat)
        /\ execute.pc = "forward" /\ Busy(execute) = 1
        /\ UNCHANGED <<runner, sent, answers, report, sampling_output_queue,
                       postprocess, model_input_queue, preprocess,
                       schedule_output_queue>>
    BY StepIsNat DEF ThreadInv, Shape, ExecuteForwarded, Busy, engine
  <1>2. UNCHANGED <<ToReport, ToPostprocess>>
    BY <1>1 DEF ToReport, ToPostprocess, Busy
  <1>3. SUFFICES ASSUME Answering
                 PROVE  /\ PostprocessNumbered' /\ ExecuteNumbered'
                        /\ PreprocessNumbered'
    BY <1>1, <1>2, ReportFrame DEF Numbered, Answering, Consecutive
  <1>4. /\ ToPostprocess \in Nat /\ ToExecute \in Nat
        /\ Len(model_output_queue) \in Nat /\ Len(model_input_queue) \in Nat
        /\ Busy(preprocess) \in {0, 1} /\ Busy(preprocess') = Busy(preprocess)
    BY <1>1, Counts DEF ThreadInv
  <1>5. CASE execute'.pc = "done" /\ UNCHANGED model_output_queue
    <2>1. PostprocessNumbered'
      BY <1>1, <1>2, <1>3, <1>5, PostprocessFrame DEF Numbered
    <2> QED BY <1>5, <2>1
         DEF ExecuteNumbered, PreprocessNumbered, Follows, Busy
  <1>6. CASE runner.fast /\ ~terminated
    <2>1. /\ UNCHANGED model_output_queue
          /\ execute' = [execute EXCEPT !.pc = "sample"]
      BY <1>3, <1>6 DEF ExecuteForwarded, Answering
    <2>2. execute'.step = execute.step /\ Busy(execute') = 1
      BY <1>1, <2>1 DEF Thread, Busy
    <2>3. UNCHANGED <<ToExecute, ToPreprocess>>
      BY <1>1, <1>2, <1>4, <2>1, <2>2 DEF ToExecute, ToPreprocess
    <2>4. PostprocessNumbered'
      BY <1>1, <1>2, <1>3, <2>1, PostprocessFrame DEF Numbered
    <2>5. ExecuteNumbered'
      BY <1>1, <1>3, <2>2, <2>3
      DEF Numbered, ExecuteNumbered, Follows, Consecutive
    <2>6. PreprocessNumbered'
      BY <1>1, <1>3, <2>3, PreprocessFrame DEF Numbered
    <2> QED BY <2>4, <2>5, <2>6
  <1>7. CASE ~runner.fast /\ "model_output_queue" \notin stopped
    <2>1. /\ model_output_queue' = Append(model_output_queue, execute.step)
          /\ Busy(execute') = 0
      BY <1>3, <1>7, NextIterationShape DEF ExecuteForwarded, Answering, PutTo
    <2>2. /\ execute.step = ToPostprocess + Len(model_output_queue) + 1
          /\ Consecutive(model_output_queue, ToPostprocess)
      BY <1>1, <1>3
      DEF Numbered, PostprocessNumbered, ExecuteNumbered, Follows, ToExecute
    <2>3. /\ Consecutive(model_output_queue', ToPostprocess)
          /\ Len(model_output_queue') = Len(model_output_queue) + 1
      BY <1>1, <1>4, <2>1, <2>2, ConsecutiveAppend, AppendProperties
    <2>4. UNCHANGED <<ToExecute, ToPreprocess>>
      BY <1>1, <1>2, <1>4, <2>1, <2>3 DEF ToExecute, ToPreprocess
    <2>5. PostprocessNumbered'
      BY <1>1, <1>2, <1>3, <2>3 DEF Numbered, PostprocessNumbered, Follows, Busy
    <2>6. ExecuteNumbered'
      BY <1>1, <1>3, <2>1, <2>4
      DEF Numbered, ExecuteNumbered, Follows, Consecutive
    <2>7. PreprocessNumbered'
      BY <1>1, <1>3, <2>4, PreprocessFrame DEF Numbered
    <2> QED BY <2>5, <2>6, <2>7
  <1>8. CASE terminated /\ (runner.fast \/ "model_output_queue" \in stopped)
    <2>1. execute'.pc = "done" /\ UNCHANGED model_output_queue
      BY <1>3, <1>8, DoneShape
      DEF ExecuteForwarded, Answering, PutTo, NextIteration
    <2> QED BY <1>5, <2>1
  <1>9. "model_output_queue" \in stopped => terminated
    BY DEF ModeInv, StopFlags
  <1> QED BY <1>6, <1>7, <1>8, <1>9

\* Postprocess takes the oldest step that waits for it.
LEMMA NumberedPostprocessGet ==
  ASSUME ThreadInv, Numbered, PostprocessGet
  PROVE  Numbered'
  <1>1. /\ model_output_queue \in Seq(Nat) /\ Busy(postprocess) = 0
        /\ UNCHANGED <<runner, sent, answers, report, sampling_output_queue,
                       execute, model_input_queue, preprocess,
                       schedule_output_queue>>
    BY DEF ThreadInv, Shape, PostprocessGet, GetFrom, AtGet, At, Busy, engine
  <1>2. ToReport' = ToReport
    BY <1>1 DEF ToReport, Busy
  <1>3. /\ ToReport \in Nat /\ ToPostprocess \in Nat
        /\ Len(sampling_output_queue) \in Nat /\ Len(model_output_queue) \in Nat
        /\ Busy(execute) \in {0, 1} /\ Busy(execute') = Busy(execute)
        /\ Busy(preprocess) \in {0, 1} /\ Busy(preprocess') = Busy(preprocess)
        /\ Len(model_input_queue) \in Nat
    BY <1>1, Counts DEF ThreadInv
  <1>4. SUFFICES ASSUME Answering
                 PROVE  /\ PostprocessNumbered' /\ ToExecute' = ToExecute
                        /\ ToPreprocess' = ToPreprocess
    BY <1>1, <1>2, ReportFrame, ExecuteFrame, PreprocessFrame
    DEF Numbered, Answering, Consecutive
  <1>5. CASE model_output_queue # <<>>
             /\ postprocess' = At("sample", Head(model_output_queue))
             /\ model_output_queue' = Tail(model_output_queue)
    <2>1. Consecutive(model_output_queue, ToPostprocess)
      BY <1>4 DEF Numbered, PostprocessNumbered
    <2>2. /\ postprocess'.step = ToPostprocess + 1
          /\ Consecutive(model_output_queue', ToPostprocess + 1)
          /\ Len(model_output_queue') = Len(model_output_queue) - 1
          /\ Busy(postprocess') = 1
      BY <1>1, <1>3, <1>5, <2>1, ConsecutiveTail DEF At, Busy
    <2>3. ToPostprocess' = ToPostprocess + 1
      BY <1>1, <1>2, <1>3, <2>2 DEF ToPostprocess
    <2>4. ToExecute' = ToExecute
      BY <1>1, <1>3, <2>2, <2>3 DEF ToExecute
    <2>5. ToPreprocess' = ToPreprocess
      BY <1>1, <1>3, <2>4 DEF ToPreprocess
    <2> QED BY <2>2, <2>3, <2>4, <2>5 DEF PostprocessNumbered, Follows
  <1>6. CASE postprocess' = Done /\ UNCHANGED model_output_queue
    <2>1. Busy(postprocess') = 0
      BY <1>6, DoneShape
    <2>2. UNCHANGED <<ToPostprocess, ToExecute, ToPreprocess>>
      BY <1>1, <1>2, <1>3, <1>6, <2>1
      DEF ToPostprocess, ToExecute, ToPreprocess
    <2> QED BY <1>4, <1>6, <2>1, <2>2
         DEF Numbered, PostprocessNumbered, Follows, Consecutive
  <1> QED BY <1>5, <1>6 DEF PostprocessGet, GetFrom

\* The body goes on with its step, in either thread.
LEMMA NumberedBody ==
  ASSUME ThreadInv, Numbered, NEW inline \in BOOLEAN,
         \/ PostprocessSample(inline) \/ PostprocessMtpLock(inline)
         \/ PostprocessMtpForwarded(inline)
  PROVE  Numbered'
  <1>1. /\ execute \in Thread /\ postprocess \in Thread
        /\ UNCHANGED <<runner, sent, answers, queues, report, preprocess>>
        /\ Body(inline).pc \in BodyPoints
        /\ \E pc \in BodyPoints : Sets(inline, [Body(inline) EXCEPT !.pc = pc])
    BY DEF ThreadInv, Shape, PostprocessSample, PostprocessMtpLock,
           PostprocessMtpForwarded, BodyPoints, engine
  <1>2. /\ execute'.step = execute.step /\ Busy(execute') = Busy(execute)
        /\ postprocess'.step = postprocess.step
        /\ Busy(postprocess') = Busy(postprocess)
        /\ execute'.pc = "done" <=> execute.pc = "done"
    BY <1>1 DEF Sets, Body, Thread, Busy, BodyPoints
  <1>3. UNCHANGED <<ToReport, ToPostprocess, ToExecute, ToPreprocess>>
    BY <1>1, <1>2
    DEF ToReport, ToPostprocess, ToExecute, ToPreprocess, Busy, queues
  <1>4. UNCHANGED <<sampling_output_queue, model_output_queue,
                    model_input_queue, schedule_output_queue, Busy(report),
                    Busy(preprocess)>>
    BY <1>1 DEF queues, Busy
  <1> QED BY <1>1, <1>2, <1>3, <1>4
       DEF Numbered, ReportNumbered, PostprocessNumbered, ExecuteNumbered,
           PreprocessNumbered, Follows, Consecutive, Answering

\* Inline, the step is put to the report thread in its turn.
LEMMA NumberedAnswerInline ==
  ASSUME ThreadInv, ModeInv, Numbered, PostprocessAnswer(TRUE)
  PROVE  Numbered'
  <1>1. /\ execute \in Thread /\ execute.step \in Nat
        /\ sampling_output_queue \in Seq(Nat)
        /\ execute.pc = "answer" /\ Busy(execute) = 1 /\ execute.pc # "done"
        /\ execute' = NextIteration /\ Busy(execute') = 0
        /\ UNCHANGED <<runner, sent, answers, report, postprocess,
                       model_output_queue, model_input_queue, preprocess,
                       schedule_output_queue>>
    BY StepIsNat, NextIterationShape
    DEF ThreadInv, Shape, PostprocessAnswer, ReportsItself, Sets, Body, Busy,
        engine
  <1>2. /\ postprocess = Done /\ model_output_queue = <<>>
        /\ Busy(postprocess) = 0 /\ Len(model_output_queue) = 0
    BY <1>1, DoneShape DEF ModeInv, Modes, BodyPoints
  <1>3. ToReport' = ToReport
    BY <1>1 DEF ToReport, Busy
  <1>4. /\ ToReport \in Nat /\ ToPostprocess \in Nat /\ ToExecute \in Nat
        /\ Len(sampling_output_queue) \in Nat
        /\ Len(model_input_queue) \in Nat /\ Len(model_output_queue') = 0
        /\ Busy(preprocess) \in {0, 1} /\ Busy(preprocess') = Busy(preprocess)
        /\ Busy(postprocess') = 0
    BY <1>1, <1>2, Counts DEF ThreadInv
  <1>5. SUFFICES ASSUME Answering
                 PROVE  /\ ReportNumbered' /\ PostprocessNumbered'
                        /\ ExecuteNumbered' /\ PreprocessNumbered'
    BY <1>1 DEF Numbered, Answering, Consecutive
  <1>6. PostprocessNumbered'
    BY <1>1, <1>2, <1>4 DEF PostprocessNumbered, Follows, Consecutive
  <1>7. CASE "sampling_output_queue" \in stopped
    <2>1. UNCHANGED sampling_output_queue /\ execute'.pc = "done"
      BY <1>1, <1>7, DoneShape
      DEF PostprocessAnswer, Answers, PutTo, NextIteration, ModeInv, StopFlags
    <2>2. ReportNumbered'
      BY <1>1, <1>3, <1>5, <2>1, ReportFrame DEF Numbered
    <2> QED BY <1>1, <1>6, <2>1, <2>2
         DEF ExecuteNumbered, PreprocessNumbered, Follows
  <1>8. CASE "sampling_output_queue" \notin stopped
    <2>1. sampling_output_queue' = Append(sampling_output_queue, execute.step)
      BY <1>8 DEF PostprocessAnswer, Answers, PutTo, Body
    <2>2. /\ execute.step = ToReport + Len(sampling_output_queue) + 1
          /\ Consecutive(sampling_output_queue, ToReport)
          /\ ToExecute = ToReport + Len(sampling_output_queue) + 1
      BY <1>1, <1>2, <1>4, <1>5
      DEF Numbered, ReportNumbered, ExecuteNumbered, Follows, ToExecute,
          ToPostprocess
    <2>3. /\ Consecutive(sampling_output_queue', ToReport)
          /\ Len(sampling_output_queue') = Len(sampling_output_queue) + 1
      BY <1>1, <1>4, <2>1, <2>2, ConsecutiveAppend, AppendProperties
    <2>4. ReportNumbered'
      BY <1>1, <1>3, <1>5, <2>3 DEF Numbered, ReportNumbered, Follows, Busy
    <2>5. ToExecute' = ToExecute
      BY <1>1, <1>3, <1>4, <2>2, <2>3 DEF ToExecute, ToPostprocess
    <2>6. ToPreprocess' = ToPreprocess
      BY <1>1, <1>4, <2>5 DEF ToPreprocess
    <2>7. ExecuteNumbered'
      BY <1>1, <1>5, <2>5
      DEF Numbered, ExecuteNumbered, Follows, Consecutive
    <2>8. PreprocessNumbered'
      BY <1>1, <1>5, <2>6, PreprocessFrame DEF Numbered
    <2> QED BY <1>6, <2>4, <2>7, <2>8
  <1> QED BY <1>7, <1>8

\* In the thread of its own, Postprocess answers the step in its turn.
LEMMA NumberedAnswer ==
  ASSUME ThreadInv, ModeInv, Numbered, PostprocessAnswer(FALSE)
  PROVE  Numbered'
  <1>1. /\ postprocess \in Thread /\ postprocess.step \in Nat
        /\ answers \in Seq(Nat)
        /\ postprocess.pc = "answer" /\ Busy(postprocess) = 1
        /\ Busy(postprocess') = 0
        /\ UNCHANGED <<runner, sent, report, sampling_output_queue, execute,
                       model_output_queue, model_input_queue, preprocess,
                       schedule_output_queue>>
    BY StepIsNat, NextIterationShape
    DEF ThreadInv, Shape, PostprocessAnswer, Sets, Body, Busy, engine
  <1>2. /\ report = Done /\ sampling_output_queue = <<>>
        /\ Busy(report) = 0 /\ Len(sampling_output_queue) = 0
    BY <1>1, DoneShape DEF ModeInv, Modes
  <1>3. /\ Len(answers) \in Nat /\ Len(model_output_queue) \in Nat
        /\ Len(model_input_queue) \in Nat /\ Busy(report') = 0
        /\ Busy(execute) \in {0, 1} /\ Busy(execute') = Busy(execute)
        /\ Busy(preprocess) \in {0, 1} /\ Busy(preprocess') = Busy(preprocess)
        /\ Len(sampling_output_queue') = 0
    BY <1>1, <1>2, Counts DEF ThreadInv
  <1>4. SUFFICES ASSUME Answering PROVE Numbered'
    BY <1>1 DEF Numbered, Answering
  <1>5. answers' = Append(answers, postprocess.step)
    BY <1>4 DEF PostprocessAnswer, ReportsItself, Answers, Body, Answering
  <1>6. /\ postprocess.step = 0 + Len(answers) + 1
        /\ ToPostprocess = Len(answers) + 1
    BY <1>1, <1>2, <1>3, <1>4
    DEF Numbered, PostprocessNumbered, Follows, ToPostprocess, ToReport
  <1>7. Consecutive(answers', 0) /\ Len(answers') = Len(answers) + 1
    BY <1>1, <1>4, <1>5, <1>6, ConsecutiveAppend, AppendProperties DEF Numbered
  <1>8. ReportNumbered'
    BY <1>1, <1>2, <1>3 DEF ReportNumbered, Follows, Consecutive
  <1>9. ToPostprocess' = ToPostprocess
    BY <1>1, <1>3, <1>6, <1>7 DEF ToPostprocess, ToReport
  <1>10. UNCHANGED <<ToExecute, ToPreprocess>>
    BY <1>1, <1>3, <1>9 DEF ToExecute, ToPreprocess
  <1>11. PostprocessNumbered'
    BY <1>1, <1>4, <1>9 DEF Numbered, PostprocessNumbered, Follows, Consecutive
  <1> QED BY <1>1, <1>4, <1>7, <1>8, <1>10, <1>11, ExecuteFrame, PreprocessFrame
       DEF Numbered

\* Report answers in the order in which it takes.
LEMMA NumberedReport ==
  ASSUME ThreadInv, Numbered, Report
  PROVE  Numbered'
  <1>1. /\ report \in Thread /\ report.step \in Nat /\ answers \in Seq(Nat)
        /\ sampling_output_queue \in Seq(Nat)
        /\ UNCHANGED <<runner, sent, postprocess, execute, model_output_queue,
                       model_input_queue, preprocess, schedule_output_queue>>
    BY StepIsNat DEF ThreadInv, Shape, Report, ReportGet, ReportSend, engine,
                     queues
  <1>2. /\ Len(answers) \in Nat /\ Len(sampling_output_queue) \in Nat
        /\ ToReport \in Nat
        /\ Busy(postprocess') = Busy(postprocess)
        /\ Busy(execute') = Busy(execute) /\ Busy(preprocess') = Busy(preprocess)
        /\ Busy(postprocess) \in {0, 1}
    BY <1>1, Counts DEF ThreadInv
  <1>3. SUFFICES ASSUME Answering
                 PROVE  /\ Consecutive(answers', 0) /\ ReportNumbered'
                        /\ ToPostprocess' = ToPostprocess
    <2>1. ToPostprocess' = ToPostprocess
            => UNCHANGED <<ToExecute, ToPreprocess>>
      BY <1>1, <1>2 DEF ToExecute, ToPreprocess
    <2> QED BY <1>1, <2>1, PostprocessFrame, ExecuteFrame, PreprocessFrame
         DEF Numbered, Answering
  <1>4. CASE ReportGet
    <2>1. Busy(report) = 0 /\ answers' = answers
      BY <1>4 DEF ReportGet, GetFrom, AtGet, At, Busy
    <2>2. /\ Consecutive(answers', 0)
          /\ Consecutive(sampling_output_queue, ToReport)
      BY <1>3, <2>1 DEF Numbered, ReportNumbered, Consecutive
    <2>3. CASE sampling_output_queue # <<>>
               /\ report' = At("report", Head(sampling_output_queue))
               /\ sampling_output_queue' = Tail(sampling_output_queue)
      <3>1. /\ report'.step = ToReport + 1
            /\ Consecutive(sampling_output_queue', ToReport + 1)
            /\ Len(sampling_output_queue') = Len(sampling_output_queue) - 1
            /\ Busy(report') = 1
        BY <1>1, <1>2, <2>2, <2>3, ConsecutiveTail DEF At, Busy
      <3>2. ToReport' = ToReport + 1
        BY <1>2, <2>1, <3>1 DEF ToReport
      <3>3. ToPostprocess' = ToPostprocess
        BY <1>2, <3>1, <3>2 DEF ToPostprocess
      <3> QED BY <2>2, <3>1, <3>2, <3>3 DEF ReportNumbered, Follows
    <2>4. CASE report' = Done /\ UNCHANGED sampling_output_queue
      <3>1. Busy(report') = 0
        BY <2>4, DoneShape
      <3>2. UNCHANGED <<ToReport, ToPostprocess>>
        BY <1>2, <2>1, <2>4, <3>1 DEF ToReport, ToPostprocess
      <3> QED BY <2>2, <2>4, <3>1, <3>2
           DEF ReportNumbered, Follows, Consecutive
    <2> QED BY <1>4, <2>3, <2>4 DEF ReportGet, GetFrom
  <1>5. CASE ReportSend
    <2>1. /\ Busy(report) = 1 /\ Busy(report') = 0
          /\ UNCHANGED sampling_output_queue
          /\ answers' = Append(answers, report.step)
      BY <1>3, <1>5, NextIterationShape
      DEF ReportSend, Busy, Answering, queues
    <2>2. report.step = 0 + Len(answers) + 1
      BY <1>2, <1>3, <2>1 DEF Numbered, ReportNumbered, Follows, ToReport
    <2>3. Consecutive(answers', 0) /\ Len(answers') = Len(answers) + 1
      BY <1>1, <1>3, <2>1, <2>2, ConsecutiveAppend, AppendProperties
      DEF Numbered
    <2>4. UNCHANGED <<ToReport, ToPostprocess>>
      BY <1>2, <2>1, <2>3 DEF ToReport, ToPostprocess
    <2> QED BY <1>3, <2>1, <2>3, <2>4
         DEF Numbered, ReportNumbered, Follows, Consecutive
  <1> QED BY <1>4, <1>5 DEF Report

\* Every step of every thread keeps the numbers consecutive.
LEMMA NumberedStep ==
  ThreadInv /\ ModeInv /\ Numbered /\ [Next]_vars => Numbered'
  <1> SUFFICES ASSUME ThreadInv, ModeInv, Numbered, [Next]_vars
               PROVE  Numbered'
    OBVIOUS
  <1>1. CASE Execute
    BY <1>1, NumberedExecute, NumberedForwarded, NumberedBody,
       NumberedAnswerInline DEF Execute
  <1>2. CASE Postprocess
    BY <1>2, NumberedPostprocessGet, NumberedBody, NumberedAnswer
    DEF Postprocess
  <1>3. CASE StopCalled \/ Stop \/ UNCHANGED vars
    BY <1>3, NumberedFrame
    DEF StopCalled, Stop, StopNext, StopJoin, vars
  <1> QED BY <1>1, <1>2, <1>3, NumberedEngineSends, NumberedPreprocess,
             NumberedReport DEF Next

\* A rank that does not report, or a node that does not sample, gives no answer.
Unanswered ==
  /\ ~Answering => answers = <<>>
  /\ ~runner.sampling => postprocess = Done /\ report = Done

\* At the start there is no answer, and no thread to give one to a runner that
\* does not sample.
LEMMA UnansweredInit == Init => Unanswered
  BY DEF Init, Unanswered, HasPostprocessThread, HasReportThread

\* A runner that does not answer never does.
LEMMA UnansweredStep == Unanswered /\ [Next]_vars => Unanswered'
  <1> SUFFICES ASSUME Unanswered, [Next]_vars PROVE Unanswered'
    OBVIOUS
  <1>1. CASE EngineSends \/ Preprocess \/ StopCalled \/ Stop \/ UNCHANGED vars
    BY <1>1
    DEF EngineSends, Preprocess, PreprocessGet, PreprocessWork, PreprocessPut,
        StopCalled, Stop, StopNext, StopJoin, vars, engine, Unanswered, Answering
  <1>2. CASE Execute
    <2>1. UNCHANGED <<runner, postprocess, report, answers>>
      BY <1>2
      DEF Execute, ExecuteGet, ExecuteUpdate, ExecuteBegin, ExecuteWait,
          ExecuteLock, ExecuteForwarded, PostprocessSample, PostprocessMtpLock,
          PostprocessMtpForwarded, PostprocessAnswer, Sets, ReportsItself, engine
    <2> QED BY <2>1 DEF Unanswered, Answering
  <1>3. CASE Postprocess
    <2>1. postprocess # Done
      <3>1. PostprocessGet => postprocess.pc = "get"
        BY DEF PostprocessGet, GetFrom, AtGet, At
      <3>2. ~PostprocessGet => postprocess.pc \in BodyPoints
        BY <1>3
        DEF Postprocess, PostprocessSample, PostprocessMtpLock,
            PostprocessMtpForwarded, PostprocessAnswer, Body, BodyPoints
      <3> QED BY <3>1, <3>2, DoneShape DEF BodyPoints
    <2>2. /\ UNCHANGED <<runner, report>>
          /\ runner.device0 \/ UNCHANGED answers
      BY <1>3
      DEF Postprocess, PostprocessGet, PostprocessSample, PostprocessMtpLock,
          PostprocessMtpForwarded, PostprocessAnswer, ReportsItself, engine
    <2> QED BY <2>1, <2>2 DEF Unanswered, Answering
  <1>4. CASE Report
    <2>1. report # Done
      BY <1>4, DoneShape DEF Report, ReportGet, GetFrom, ReportSend, AtGet, At
    <2>2. /\ UNCHANGED <<runner, postprocess>>
          /\ runner.device0 \/ UNCHANGED answers
      BY <1>4 DEF Report, ReportGet, ReportSend, engine
    <2> QED BY <2>1, <2>2 DEF Unanswered, Answering
  <1> QED BY <1>1, <1>2, <1>3, <1>4 DEF Next

-----------------------------------------------------------------------------
(* The results about the steps *)

\* The threads of a runner and its Stop flags, for the theorems below.
LEMMA ModesCorrect == Spec => []ModeInv
  BY ThreadInvCorrect, ModeInit, ModeStep, PTL DEF Spec

\* UpdateCachedRequests runs in Preprocess or, on the MTP serial path, in
\* Execute: whenever only one step can be in flight, and always on the MTP
\* serial path, what Forward and the body read of the cached requests is their
\* own step's, however far Preprocess has gone.
THEOREM CacheIsOfStepCorrect == Spec => []CacheIsOfStep
  <1>1. Spec => []CacheInv
    BY ThreadInvCorrect, ModesCorrect, CacheInit, CacheStep, PTL DEF Spec
  <1>2. ModeInv /\ CacheInv => CacheIsOfStep
    <2> SUFFICES ASSUME ModeInv, CacheInv PROVE CacheIsOfStep
      OBVIOUS
    <2>1. CASE IsMtpSerialFastPath
      <3>1. postprocess.pc = "done"
        BY <2>1, DoneShape DEF IsMtpSerialFastPath, ModeInv, Modes
      <3> QED BY <2>1, <3>1 DEF CacheInv, CacheSerial, CacheIsOfStep
    <2>2. CASE OneAhead
      BY <2>2 DEF CacheInv, CacheAlone, CacheIsOfStep, Busy
    <2> QED BY <2>1, <2>2 DEF CacheIsOfStep, OneAhead, Answering
  <1> QED BY <1>1, <1>2, ModesCorrect, PTL

\* On every path, with errors and a Stop at any moment, the answers carry the
\* schedule ids in their order with none left out, and until Stop is called
\* every hidden unit buffer and epoch taken by BeginBatch belongs to a step that
\* Execute or Postprocess has or finds in its queue.
THEOREM StepsAccountedCorrect == Spec => []StepsAccounted
  <1>1. Spec => []HeldInHands
    BY ThreadInvCorrect, ModesCorrect, HeldInit, HeldStep, PTL DEF Spec
  <1>2. Spec => []Numbered
    BY ThreadInvCorrect, ModesCorrect, NumberedInit, NumberedStep, PTL DEF Spec
  <1>3. Spec => []Unanswered
    BY ThreadInvCorrect, UnansweredInit, UnansweredStep, PTL DEF Spec
  <1>4. HeldInHands => HeldIsInFlight
    BY DEF HeldInHands, HeldIsInFlight, InHands, Holding, Elements
  <1>5. ThreadInv /\ Numbered /\ Unanswered => AnsweredInOrder
    <2> SUFFICES ASSUME ThreadInv, Numbered, Unanswered,
                        NEW i \in DOMAIN answers
                 PROVE  answers[i] = i
      BY DEF AnsweredInOrder
    <2>1. i \in Nat /\ Answering
      BY LenProperties DEF ThreadInv, Shape, Unanswered
    <2>2. answers[i] = 0 + i
      BY <2>1 DEF Numbered, Consecutive
    <2> QED BY <2>1, <2>2
  <1> QED BY ThreadInvCorrect, <1>1, <1>2, <1>3, <1>4, <1>5, PTL
       DEF StepsAccounted
================================================================================

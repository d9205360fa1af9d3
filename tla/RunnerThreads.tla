----------------------------- MODULE RunnerThreads -----------------------------
(***************************************************************************)
(* The worker threads of one ModelRunner: Preprocess builds a model input, *)
(* Execute runs Forward, and what follows (sampling, MtpForward, the       *)
(* answer) runs either in a thread of its own, HandlePostprocess, or, with *)
(* build-ahead, inline in Execute, whose answers a report thread sends.    *)
(* Blocking queues join them; Stop ends them from outside at any moment.   *)
(*                                                                         *)
(* What a step computes is the subject of DeviceRing and MtpSerial. Here a *)
(* step is its number, and the threads interleave at each point where one  *)
(* can block or another can see what it did.                               *)
(***************************************************************************)
EXTENDS Integers, Sequences, FiniteSets

CONSTANTS
  StepNum,  \* schedule outputs that the Engine sends (a bound)
  mtp_step_num_,  \* draft passes of one MtpForward
  Runners,  \* the kinds of runner to start
  Mids      \* sets of steps that may be chunks in the middle of prompts

\* fast: FastPathController's decision. mtp: mtp_step_num_ > 0. dual_h2d: inputs
\* are copied by Preprocess. sampling: this node samples. device0: the rank
\* that reports. depth: steps that the Engine launches ahead of the answers.
Runner ==
  [fast : BOOLEAN, mtp : BOOLEAN, dual_h2d : BOOLEAN, sampling : BOOLEAN,
   device0 : BOOLEAN, depth : 1..2]

ASSUME RunnerThreadsAssumption ==
  /\ StepNum \in Nat /\ mtp_step_num_ \in Nat \ {0}
  /\ Runners \subseteq Runner
  /\ Mids \subseteq SUBSET (1..StepNum)

VARIABLES
  runner,       \* the runner's configuration
  mid,          \* the steps whose requests are all in the middle of a prompt
  sent,         \* schedule outputs sent so far
  schedule_output_queue, model_input_queue, model_output_queue,
  sampling_output_queue,
  preprocess, execute, postprocess, report,  \* the threads
  forward_lock, \* the holder of CommonModel's forward_mutex_
  mtp_awaited,  \* the step whose MtpForward has yet to notify, or 0
  drafted,      \* passes that the MtpForward under way has made
  cached,       \* the step that UpdateCachedRequests last ran for
  held,         \* steps with a hidden unit buffer and a pd_v2 epoch
  answers,      \* the schedule ids reported, in order
  terminated, stopped, shutdown,  \* what Stop has set so far
  stop,         \* where Stop is: 0 not called, then the next thing to stop
  failed        \* a thread returned with an error

queues == <<schedule_output_queue, model_input_queue, model_output_queue,
            sampling_output_queue>>
engine == <<runner, mid, sent>>
stopping == <<terminated, stopped, shutdown, stop>>
vars == <<engine, queues, preprocess, execute, postprocess, report,
          forward_lock, mtp_awaited, drafted, cached, held, answers, stopping,
          failed>>

Steps == 1..StepNum

PreprocessPoints == {"get", "work", "put", "done"}
PostprocessPoints == {"get", "sample", "mtp_lock", "mtp_forward",
                      "answer", "done"}
ExecutePoints == PostprocessPoints \cup {"update", "begin", "wait", "lock",
                                         "forward"}
ReportPoints == {"get", "report", "done"}

At(pc, step) == [pc |-> pc, step |-> step]
AtGet == At("get", 0)
Done == At("done", 0)
-----------------------------------------------------------------------------
(* The threads and their queues *)

IsMtpSerialFastPath == runner.fast /\ runner.mtp

\* Mutant: the bound counts the one that Execute has taken.
MtpSerialModelInputQueueMaxDepthLess1 == 1
\* Start gives the queue a bound on one path only.
MtpSerialModelInputQueueMaxDepth == 2
HasRoom(queue) ==
  ~IsMtpSerialFastPath \/ Len(queue) < MtpSerialModelInputQueueMaxDepth

\* Start: who handles what follows Forward.
HasPostprocessThread == runner.sampling /\ ~runner.fast
HasReportThread == runner.sampling /\ runner.fast

Init ==
  /\ runner \in Runners
  /\ mid \in Mids
  /\ sent = 0
  /\ schedule_output_queue = <<>> /\ model_input_queue = <<>>
  /\ model_output_queue = <<>> /\ sampling_output_queue = <<>>
  /\ preprocess = AtGet /\ execute = AtGet
  /\ postprocess = IF HasPostprocessThread THEN AtGet ELSE Done
  /\ report = IF HasReportThread THEN AtGet ELSE Done
  /\ forward_lock = "free" /\ mtp_awaited = 0 /\ drafted = 0
  /\ cached = 0 /\ held = {} /\ answers = <<>>
  /\ terminated = FALSE /\ stopped = {} /\ shutdown = FALSE /\ stop = 0
  /\ failed = FALSE

\* The Engine's depth is counted in answers, which device 0 gives; the other
\* ranks and nodes may be further behind.
EngineSends ==
  /\ sent < StepNum
  /\ runner.device0 /\ runner.sampling => sent - Len(answers) < runner.depth
  /\ sent' = sent + 1
  /\ schedule_output_queue' = Append(schedule_output_queue, sent')
  /\ UNCHANGED <<runner, mid, model_input_queue, model_output_queue,
                 sampling_output_queue, preprocess, execute, postprocess,
                 report, forward_lock, mtp_awaited, drafted, cached, held,
                 answers, stopping, failed>>

\* The end of an iteration with the check of the flag at the head of the next
\* (the two commute with all that others do, so they are one step).
NextIteration == IF terminated THEN Done ELSE AtGet

\* BlockingQueue (outside of this code): Get takes an item if there is one, and
\* returns nothing once the queue is stopped, whatever is left in it; Put to
\* a stopped queue returns and its item is lost.
GetFrom(queue, name, thread, pc) ==
  /\ thread = AtGet
  /\ \/ queue # <<>> /\ thread' = At(pc, Head(queue)) /\ queue' = Tail(queue)
     \/ name \in stopped /\ thread' = Done /\ UNCHANGED queue

PutTo(queue, name, step) ==
  queue' = IF name \in stopped THEN queue ELSE Append(queue, step)
-----------------------------------------------------------------------------
(* HandlePreprocess *)

PreprocessGet ==
  /\ GetFrom(schedule_output_queue, "schedule_output_queue", preprocess, "work")
  /\ UNCHANGED <<engine, model_input_queue, model_output_queue,
                 sampling_output_queue, execute, postprocess, report,
                 forward_lock, mtp_awaited, drafted, cached, held, answers,
                 stopping, failed>>

\* Mutant: the cache is updated ahead on every path.
UpdatesCachedAlways == TRUE
\* The MTP serial path leaves the cached requests to Execute.
UpdatesCachedAhead == ~IsMtpSerialFastPath

\* UpdateCachedRequests, RebuildScheduleOutput, BuildModelInput, whose status
\* is not looked at; then PrepareModelInputGpu, on whose error it returns.
PreprocessWork ==
  /\ preprocess.pc = "work"
  /\ cached' = IF UpdatesCachedAhead THEN preprocess.step ELSE cached
  /\ \/ preprocess' = [preprocess EXCEPT !.pc = "put"] /\ UNCHANGED failed
     \/ /\ runner.dual_h2d /\ ~IsMtpSerialFastPath
        /\ preprocess' = Done /\ failed' = TRUE
  /\ UNCHANGED <<engine, queues, execute, postprocess, report, forward_lock,
                 mtp_awaited, drafted, held, answers, stopping>>

PreprocessPut ==
  /\ preprocess.pc = "put"
  /\ HasRoom(model_input_queue) \/ "model_input_queue" \in stopped
  /\ PutTo(model_input_queue, "model_input_queue", preprocess.step)
  /\ preprocess' = NextIteration
  /\ UNCHANGED <<engine, schedule_output_queue, model_output_queue,
                 sampling_output_queue, execute, postprocess, report,
                 forward_lock, mtp_awaited, drafted, cached, held, answers,
                 stopping, failed>>
-----------------------------------------------------------------------------
(* HandleExecute *)

ExecuteGet ==
  /\ GetFrom(model_input_queue, "model_input_queue", execute, 
             IF IsMtpSerialFastPath THEN "update" ELSE "begin")
  /\ UNCHANGED <<engine, schedule_output_queue, model_output_queue,
                 sampling_output_queue, preprocess, postprocess, report,
                 forward_lock, mtp_awaited, drafted, cached, held, answers,
                 stopping, failed>>

\* MTP serial: update, repair from the ring and BuildModelInput, whose error
\* ends the thread.
ExecuteUpdate ==
  /\ execute.pc = "update"
  /\ cached' = execute.step
  /\ \/ execute' = [execute EXCEPT !.pc = "begin"] /\ UNCHANGED failed
     \/ execute' = Done /\ failed' = TRUE
  /\ UNCHANGED <<engine, queues, preprocess, postprocess, report, forward_lock,
                 mtp_awaited, drafted, held, answers, stopping>>

\* GetBuffer and BeginBatch. The runtime's Forward may first wait for the
\* MtpForward of the step before (outside of this code: only that Shutdown
\* wakes it is known here).
ExecuteBegin ==
  /\ execute.pc = "begin"
  /\ held' = held \cup {execute.step}
  /\ \E next \in IF runner.mtp /\ runner.sampling
                 THEN {"wait", "lock"} ELSE {"lock"} :
       execute' = [execute EXCEPT !.pc = next]
  /\ UNCHANGED <<engine, queues, preprocess, postprocess, report, forward_lock,
                 mtp_awaited, drafted, cached, answers, stopping, failed>>

ExecuteWait ==
  /\ execute.pc = "wait"
  /\ mtp_awaited = 0 \/ shutdown
  /\ execute' = [execute EXCEPT !.pc = "lock"]
  /\ UNCHANGED <<engine, queues, preprocess, postprocess, report, forward_lock,
                 mtp_awaited, drafted, cached, held, answers, stopping, failed>>

\* Mutant: Forward does not look whether MtpForward is running.
ForwardUnguarded == TRUE
\* CommonModel::Forward, for either caller, runs under forward_mutex_.
CanLockForward == forward_lock = "free"

ExecuteLock ==
  /\ execute.pc = "lock"
  /\ CanLockForward
  /\ forward_lock' = "execute"
  /\ execute' = [execute EXCEPT !.pc = "forward"]
  /\ UNCHANGED <<engine, queues, preprocess, postprocess, report, mtp_awaited,
                 drafted, cached, held, answers, stopping, failed>>

\* The steps that MtpForward runs for.
Drafts(step) == runner.mtp /\ runner.sampling /\ step \notin mid

\* Mutant: a node that does not sample keeps what it took for the step.
KeepsHeld(step) == held
Freed(step) == held \ {step}

\* Forward returns: a node that does not sample frees the buffer and the epoch;
\* the others postprocess, through the queue or inline (in the same loop, which
\* checks the flag once more).
ExecuteForwarded ==
  /\ execute.pc = "forward"
  /\ forward_lock' = "free"
  /\ mtp_awaited' = IF Drafts(execute.step) THEN execute.step ELSE mtp_awaited
  /\ IF ~runner.sampling
     THEN /\ held' = Freed(execute.step)
          /\ execute' = NextIteration
          /\ UNCHANGED model_output_queue
     ELSE /\ UNCHANGED held
          /\ IF runner.fast
             THEN /\ execute' = IF terminated THEN Done
                               ELSE [execute EXCEPT !.pc = "sample"]
                  /\ UNCHANGED model_output_queue
             ELSE /\ execute' = NextIteration
                  /\ PutTo(model_output_queue, "model_output_queue",
                           execute.step)
  /\ UNCHANGED <<engine, schedule_output_queue, model_input_queue,
                 sampling_output_queue, preprocess, postprocess, report,
                 drafted, cached, answers, stopping, failed>>

-----------------------------------------------------------------------------
(* HandlePostprocess, in its own thread or inline in Execute *)

PostprocessGet ==
  /\ GetFrom(model_output_queue, "model_output_queue", postprocess, "sample")
  /\ UNCHANGED <<engine, schedule_output_queue, model_input_queue,
                 sampling_output_queue, preprocess, execute, report,
                 forward_lock, mtp_awaited, drafted, cached, held, answers,
                 stopping, failed>>

\* The thread that runs the body: the slow path's own, or Execute.
Sets(inline, state) ==
  IF inline THEN execute' = state /\ UNCHANGED postprocess
  ELSE postprocess' = state /\ UNCHANGED execute
Body(inline) == IF inline THEN execute ELSE postprocess

\* Sampling, rings and generation state; steps that sample go on to MtpForward.
PostprocessSample(inline) ==
  LET me == Body(inline) IN
  /\ me.pc = "sample"
  /\ Sets(inline, [me EXCEPT !.pc = IF Drafts(me.step) THEN "mtp_lock"
                                    ELSE "answer"])
  /\ UNCHANGED <<engine, queues, preprocess, report, forward_lock, mtp_awaited,
                 drafted, cached, held, answers, stopping, failed>>

PostprocessMtpLock(inline) ==
  LET me == Body(inline) IN
  /\ me.pc = "mtp_lock"
  /\ CanLockForward
  /\ forward_lock' = "postprocess"
  /\ Sets(inline, [me EXCEPT !.pc = "mtp_forward"])
  /\ UNCHANGED <<engine, queues, preprocess, report, mtp_awaited, drafted,
                 cached, held, answers, stopping, failed>>

\* A draft pass ends, and with it the Forward that holds the lock: MtpForward
\* calls Forward for the next one, or returns and notifies whoever waits for it.
PostprocessMtpForwarded(inline) ==
  LET me == Body(inline) IN
  /\ me.pc = "mtp_forward"
  /\ forward_lock' = "free"
  /\ \/ /\ drafted + 1 < mtp_step_num_
        /\ drafted' = drafted + 1
        /\ Sets(inline, [me EXCEPT !.pc = "mtp_lock"])
        /\ UNCHANGED mtp_awaited
     \/ /\ drafted + 1 >= mtp_step_num_
        /\ drafted' = 0
        /\ mtp_awaited' = IF mtp_awaited = me.step THEN 0 ELSE mtp_awaited
        /\ Sets(inline, [me EXCEPT !.pc = "answer"])
  /\ UNCHANGED <<engine, queues, preprocess, report, cached, held, answers,
                 stopping, failed>>

\* Mutant: steps that sample nothing are not answered.
AnswersSampled(step) == step \notin mid
\* Every step is answered, with its schedule id, even without a token.
Answers(step) == TRUE

\* Mutant: the answer is queued for the report thread and sent as well.
ReportsFromAnyThread(inline) == runner.device0
\* The slow path reports by itself, from device 0 only.
ReportsItself(inline) == ~inline /\ runner.device0

\* FreeBuffer and ResetState, then the answer; inline it goes to the report
\* thread. (A flag, set for each inline call and reset here, tells the cases.)
PostprocessAnswer(inline) ==
  LET me == Body(inline) IN
  /\ me.pc = "answer"
  /\ held' = Freed(me.step)
  /\ IF inline /\ Answers(me.step)
     THEN PutTo(sampling_output_queue, "sampling_output_queue", me.step)
     ELSE UNCHANGED sampling_output_queue
  /\ answers' = IF ReportsItself(inline) /\ Answers(me.step)
                THEN Append(answers, me.step) ELSE answers
  /\ Sets(inline, NextIteration)
  /\ UNCHANGED <<engine, schedule_output_queue, model_input_queue,
                 model_output_queue, preprocess, report, forward_lock,
                 mtp_awaited, drafted, cached, stopping, failed>>
-----------------------------------------------------------------------------
(* HandleResultReportProcess *)

ReportGet ==
  /\ GetFrom(sampling_output_queue, "sampling_output_queue", report, "report")
  /\ UNCHANGED <<engine, schedule_output_queue, model_input_queue,
                 model_output_queue, preprocess, execute, postprocess,
                 forward_lock, mtp_awaited, drafted, cached, held, answers,
                 stopping, failed>>

ReportSend ==
  /\ report.pc = "report"
  /\ answers' = IF runner.device0 THEN Append(answers, report.step)
                ELSE answers
  /\ report' = NextIteration
  /\ UNCHANGED <<engine, queues, preprocess, execute, postprocess, forward_lock,
                 mtp_awaited, drafted, cached, held, stopping, failed>>
-----------------------------------------------------------------------------
(* Stop, called by another thread at any moment *)

\* Mutant: Stop leaves a Forward that waits for MtpForward asleep.
StopOrderWithoutShutdown ==
  <<"schedule_output_queue", "model_input_queue", "model_output_queue",
    "sampling_output_queue">>
StopOrder ==
  <<"schedule_output_queue", "model_input_queue", "model_output_queue",
    "sampling_output_queue", "Shutdown">>

\* Where Stop is when the queues have been stopped, and when it has returned.
Joining == Len(StopOrder) + 1
Joined == Len(StopOrder) + 2

StopCalled ==
  /\ stop = 0
  /\ stop' = 1
  /\ terminated' = TRUE
  /\ UNCHANGED <<engine, queues, preprocess, execute, postprocess, report,
                 forward_lock, mtp_awaited, drafted, cached, held, answers,
                 stopped, shutdown, failed>>

StopNext ==
  /\ stop \in DOMAIN StopOrder
  /\ stop' = stop + 1
  /\ IF StopOrder[stop] = "Shutdown"
     THEN shutdown' = TRUE /\ UNCHANGED stopped
     ELSE stopped' = stopped \cup {StopOrder[stop]} /\ UNCHANGED shutdown
  /\ UNCHANGED <<engine, queues, preprocess, execute, postprocess, report,
                 forward_lock, mtp_awaited, drafted, cached, held, answers,
                 terminated, failed>>

\* The joins, in their order, return when every thread has.
StopJoin ==
  /\ stop = Joining
  /\ {preprocess, execute, postprocess, report} = {Done}
  /\ stop' = Joined
  /\ UNCHANGED <<engine, queues, preprocess, execute, postprocess, report,
                 forward_lock, mtp_awaited, drafted, cached, held, answers,
                 terminated, stopped, shutdown, failed>>

Preprocess == PreprocessGet \/ PreprocessWork \/ PreprocessPut

\* Execute's own steps, and the body it runs inline.
Execute ==
  \/ ExecuteGet \/ ExecuteUpdate \/ ExecuteBegin \/ ExecuteWait
  \/ ExecuteLock \/ ExecuteForwarded
  \/ PostprocessSample(TRUE) \/ PostprocessMtpLock(TRUE)
  \/ PostprocessMtpForwarded(TRUE) \/ PostprocessAnswer(TRUE)

Postprocess ==
  \/ PostprocessGet
  \/ PostprocessSample(FALSE) \/ PostprocessMtpLock(FALSE)
  \/ PostprocessMtpForwarded(FALSE) \/ PostprocessAnswer(FALSE)

Report == ReportGet \/ ReportSend

Stop == StopNext \/ StopJoin

Next ==
  \/ EngineSends \/ Preprocess \/ Execute \/ Postprocess \/ Report
  \/ StopCalled \/ Stop
  \/ stop = Joined /\ UNCHANGED vars  \* the runner is gone

\* Each thread runs when it can, whoever holds the lock lets it go, and a Stop
\* that was called goes on. Nothing makes the Engine send or stop.
Fairness ==
  /\ WF_vars(Preprocess) /\ WF_vars(Execute) /\ WF_vars(Postprocess)
  /\ WF_vars(Report) /\ WF_vars(Stop)

Spec == Init /\ [][Next]_vars /\ Fairness
-----------------------------------------------------------------------------
(* What the Engine and the runner's owner rely on *)

\* The answers come in the order of the schedule ids, each once, none left out:
\* the Engine takes the next of its launched steps for the one answered.
AnsweredInOrder == \A i \in DOMAIN answers : answers[i] = i

\* On the MTP serial path, or with one step in flight, the cached requests are
\* those of the step that is forwarded or postprocessed: nothing that Preprocess
\* does for a later step reaches them.
CacheIsOfStep ==
  IsMtpSerialFastPath \/ (runner.device0 /\ runner.sampling
                            /\ runner.depth = 1) =>
    \A thread \in {execute, postprocess} :
      thread.pc \notin {"get", "update", "done"} => cached = thread.step

\* The main Forward and the MtpForward of the step before never run together
\* on the model's one forwarding context, though the wait before Forward may
\* not have been for that step.
ForwardExclusive ==
  ~(execute.pc = "forward" /\ postprocess.pc = "mtp_forward")

\* On the rank whose answers let the Engine launch, Preprocess never waits for
\* room: the queue's bound covers all that can be in flight.
PutNeverBlocks ==
  runner.device0 /\ runner.sampling /\ preprocess.pc = "put" =>
    HasRoom(model_input_queue)

\* A hidden unit buffer and an epoch belong to a step that some thread still
\* has or finds in its queue, until Stop is called.
HeldIsInFlight ==
  ~terminated =>
    held \subseteq {execute.step, postprocess.step}
                    \cup {model_output_queue[i] : i \in DOMAIN model_output_queue}

\* Steps are accounted for on both ends: answered in their turn, and nothing kept
\* of one that is over.
StepsAccounted == AnsweredInOrder /\ HeldIsInFlight

\* Once called, Stop returns: from whatever point, and after a thread failed.
StopReturns == stop > 0 ~> stop = Joined

\* Without a failure or a Stop, every step sent is answered, a step of nothing
\* but chunks in the middle of prompts too.
EveryStepAnswered ==
  \A k \in Steps :
    sent >= k /\ runner.device0 /\ runner.sampling
      ~> Len(answers) >= k \/ failed \/ terminated
=============================================================================

----------------------------- MODULE LaunchChannel -----------------------------
(***************************************************************************)
(* What the Engine relies on when it dispatches a ScheduleOutput: a FIFO.  *)
(* An output is fixed at the moment it is launched, and the Executor runs  *)
(* the outputs in that order, each exactly as it was launched, whatever    *)
(* the Engine does to the requests in between.                             *)
(***************************************************************************)
EXTENDS Integers, Sequences

VARIABLES
  queue,  \* the launched outputs: a step of each request
  batch   \* what the Executor runs, NoBatch between two outputs

vars == <<queue, batch>>

NoBatch == <<>>

Init == queue = <<>> /\ batch = NoBatch

\* A launch adds an output and leaves those before it as they are.
Launch ==
  /\ Len(queue') = Len(queue) + 1
  /\ SubSeq(queue', 1, Len(queue)) = queue
  /\ UNCHANGED batch

Run ==
  /\ queue # <<>> /\ batch = NoBatch
  /\ batch' = Head(queue)
  /\ queue' = Tail(queue)

Finish ==
  /\ batch # NoBatch
  /\ batch' = NoBatch
  /\ UNCHANGED queue

Next == Launch \/ Run \/ Finish

Spec == Init /\ [][Next]_vars
================================================================================

---------------------------- MODULE MCRunnerThreads ----------------------------
(***************************************************************************)
(* Instances of RunnerThreads: every kind of runner that start-up allows.  *)
(***************************************************************************)
EXTENDS RunnerThreads

\* With build-ahead there is one pipeline batch, two steps are launched ahead,
\* and the MTP serial path refuses a pipeline (so it samples). Only the rank
\* and the node that answer are held to the depth; elsewhere it is not read.
AllRunners ==
  {r \in Runner :
    /\ r.fast => r.depth = 2
    /\ r.fast /\ r.mtp => r.sampling /\ ~r.dual_h2d
    /\ ~r.sampling => ~r.mtp /\ r.device0
    /\ ~(r.device0 /\ r.sampling) => r.depth = 2}

\* The second of three steps samples nothing, or all do.
SecondOrNone == {{}, {2}}
=============================================================================

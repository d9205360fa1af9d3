\* Every kind of runner, three steps of two draft passes, Stop at any
\* moment, and errors.
SPECIFICATION Spec
CONSTANTS
  StepNum = 3
  mtp_step_num_ = 2
  Runners <- AllRunners
  Mids <- SecondOrNone
INVARIANTS CacheIsOfStep ForwardExclusive PutNeverBlocks StepsAccounted
PROPERTIES StopReturns EveryStepAnswered

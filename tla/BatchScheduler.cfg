SPECIFICATION Spec
CONSTANTS
  Requests = {1, 2, 3}
  Groups = {{1, 2}, {3}}
  Stoppable = {1, 3}
  Steps = 2
  MaxDp = 2
  MaxPp = 2
  MaxBatchStates = 2
  max_token_len = 3
  max_waiting_queue_len = 2
  max_waiting_steps = 1
  MaxPressure = 1
INVARIANTS EachInOnePlace HeldBackBounded LiveKeepsResources NoBetterRank
PROPERTY EventuallyServed
CHECK_DEADLOCK FALSE

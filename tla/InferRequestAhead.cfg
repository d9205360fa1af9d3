SPECIFICATION FairSpec
CONSTANTS
  FastPath = TRUE
  MtpStepNum = 2
  PromptLen = 3
  EosPositions = {4, 5, 6, 7, 8}
  MaxRecompute = 1
  Bubbles = FALSE
INVARIANTS TypeOK PlaceholderFifo ForwardingIsText LaunchedStepsHaveWork KvAtBlockStart PromptPartition
PROPERTIES RefinesDecode EventuallyFinished

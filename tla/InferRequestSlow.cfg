SPECIFICATION FairSpec
CONSTANTS
  FastPath = FALSE
  MtpStepNum = 2
  PromptLen = 3
  EosPositions = {4, 5, 6, 7, 8}
  MaxRecompute = 1
  Bubbles = TRUE
INVARIANTS OutputIsText PlanningLenCoversLaunch
PROPERTIES EventuallyFinished

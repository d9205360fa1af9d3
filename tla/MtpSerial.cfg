SPECIFICATION SerialSpec
CONSTANTS
  FastPath = TRUE
  MtpStepNum = 2
  PromptLen = 3
  EosPositions = {4, 6, 7}
  MaxRecompute = 1
  Bubbles = FALSE
INVARIANTS ExecutorForwardsText BlocksAgree
PROPERTIES RefinesInferRequest

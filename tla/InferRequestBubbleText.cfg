SPECIFICATION Spec
CONSTANTS
  FastPath = TRUE
  MtpStepNum = 1
  PromptLen = 3
  EosPositions = {4, 5, 6, 7, 8}
  MaxRecompute = 1
  Bubbles = TRUE
INVARIANTS OutputIsText

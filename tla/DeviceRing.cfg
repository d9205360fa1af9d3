\* Two requests, prompts of two tokens, whole pipeline.
SPECIFICATION FairSpec
CONSTANTS
  Requests = {1, 2}
  PromptLen = 2
  EosPositions = {3, 5}
  MaxRecompute = 1
  MixChunks = FALSE
  Replay = FALSE
INVARIANTS DepthCountsOutputs NothingReusedEarly ForwardsText OutputsAreTexts
PROPERTY EventuallyFinished

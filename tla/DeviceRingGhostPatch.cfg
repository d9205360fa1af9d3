SPECIFICATION Spec
CONSTANTS
  Requests = {1, 2}
  PromptLen = 2
  EosPositions = {5}
  MaxRecompute = 1
  MixChunks = FALSE
  Replay = TRUE
INVARIANT NoGhostPatch

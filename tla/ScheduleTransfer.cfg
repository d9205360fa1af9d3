CONSTANTS
  Requests = {r1, r2}
  PromptLens = {1, 2}
  TextLen = 3
  MaxRecompute = 1
SYMMETRY RequestsAreAlike
SPECIFICATION Spec
INVARIANTS RequestsComplete PoolBounded
PROPERTIES ChannelSpec

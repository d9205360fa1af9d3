\* Every deployment that differs from a usual one in two settings.
SPECIFICATION Spec
CONSTANTS
  Deployments <- TwoAway
INVARIANTS ParallelTopology MtpSupported BuffersSuffice PromptFits BlocksFitMemory FastPathIffEligible CopiesAgree

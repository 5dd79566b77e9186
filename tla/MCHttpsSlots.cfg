SPECIFICATION FairSpec
CONSTANTS
  Slots = {s1, s2}
  Requests = 3
  kMaxRetryPerSession = 1
INVARIANTS
  EveryRequestAccounted
  RetryBudget
  AnswersMatch
  NoDescriptorLeaks
PROPERTIES
  ImplementsRun
  RunEnds

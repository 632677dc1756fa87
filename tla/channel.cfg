\* The two channels, the interrupt line, the counters and W^X; every page is
\* blessable at any time, descriptors and buffers share and straddle pages.
SPECIFICATION Spec
CONSTANTS
  Page <- TwoPages
  Blessable <- TwoPages
  Descriptor <- DescriptorsMixed
  Buffer <- BuffersAcross
  MAX_RETRIES = 2
  oracle_budget = 2
  cycle_limit = 2
  Limits = {2}
  MaxTraps = 3
  MaxAborts = 1
  None = None
INVARIANTS
  WriteXorExecute
  TypeOK
  SingleChannel
  OneInterruptPerRequest
  TrapsBalance
  AttemptsBalance
  RetriesWithinBudget
PROPERTIES
  AnswerSafeUntilHandler
  NothingWrittenUnlessSuccess
  StoppedStaysStopped
  ImplementsDevice

\* Liveness and the documented balance of the counters; no page of a descriptor
\* is ever executable.
SPECIFICATION FairSpec
CONSTANTS
  Page <- TwoPages
  Blessable <- BufferPage
  Descriptor <- DescriptorOn1
  Buffer <- BufferOn2
  MAX_RETRIES = 1
  oracle_budget = 2
  cycle_limit = 2
  Limits = {2}
  MaxTraps = 3
  MaxAborts = 1
  None = None
INVARIANT CountersAddUp
PROPERTIES
  LoopReturns
  RequestCompletes

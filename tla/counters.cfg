\* The documented balance of the counters when a descriptor's page is blessed.
SPECIFICATION Spec
CONSTANTS
  Page <- TwoPages
  Blessable <- TwoPages
  Descriptor <- DescriptorOn1
  Buffer <- BufferOn2
  MAX_RETRIES = 0
  oracle_budget = 1
  cycle_limit = 3
  Limits = {3}
  MaxTraps = 2
  MaxAborts = 1
  None = None
INVARIANT CountersAddUp

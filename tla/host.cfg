\* Every command, a slow device, a host limit; two requests per program, one
\* retry each, segments of three and one instructions.
SPECIFICATION HostFairSpec
CONSTANTS
  Page <- OnePage
  Blessable <- OnePage
  Descriptor <- DescriptorOn1
  Buffer <- BufferOn1
  MAX_RETRIES = 1
  oracle_budget = 2
  cycle_limit = 2
  Limits = {1, 2, 3}
  limit = 3
  latencies = {0, 1}
  HostTraps <- NoneOrOne
  MaxTraps = 3
  MaxAborts = 1
  None = None
INVARIANTS
  AskedIsAnswered
  NobodyLeftWaiting
PROPERTIES
  LimitIsKept
  CommandsFinish

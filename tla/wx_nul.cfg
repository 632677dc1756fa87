\* The TEXT terminator and executable pages.
SPECIFICATION Spec
CONSTANTS
  Page <- ThreePages
  Blessable <- ThreePages
  Descriptor <- DescriptorOn1
  Buffer <- BufferOn23
  MAX_RETRIES = 0
  oracle_budget = 1
  cycle_limit = 3
  Limits = {3}
  MaxTraps = 2
  MaxAborts = 1
  None = None
INVARIANT NulStaysOffCode

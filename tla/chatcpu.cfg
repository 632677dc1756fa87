\* Every kit; runs of at most 12 cycles.
SPECIFICATION Spec
CONSTANTS
  Error = Error
  NoTwin = NoTwin
  Numeral <- Numerals
  Decimal <- Decimals
  Octal <- Octals
  ord <- Codes
  Upper <- UpperCase
  utf8 <- NoEncoding
  Files <- NoFiles
  Limit = 12
  DemoPath <- Demo
  DEMO <- DemoLines
  Random <- Randoms
  Kits <- AllKits
\* A session may end.
CHECK_DEADLOCK FALSE
INVARIANTS
  OldProgramsAssemble
  OldProgramsRun
  MiniProgramsRun

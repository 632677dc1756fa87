\* Every kit; runs of at most 20 instructions.
SPECIFICATION Spec
CONSTANTS
  Error = Error
  Numeral <- Numerals
  utf8 <- Encoding
  ord <- Codes
  Upper <- UpperCase
  Files <- Included
  Kits <- AllKits
  MaxCycles = 20
  Inputs <- SomeInputs
  Replies <- SomeReplies
  Aborts <- SomeAborts
\* A program may halt, fault, or come to the bound.
CHECK_DEADLOCK FALSE
INVARIANTS
  LinesReadBack
  ImageIsListing
  ConstantsMove
  DisassemblyIsSource
PROPERTIES
  ReturnsAreExact
  CodeIsFrozen

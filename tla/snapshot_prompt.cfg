\* A prompt that contains the line that closes a prompt.
SPECIFICATION Spec
CONSTANTS
  Sector <- TwoSectors
  Image <- TwoImages
  Prompt <- PromptWithMarker
  MaxDumps = 1
  MaxDamage = 0
  None = None
INVARIANT CleanMountIsExact

\* Two frames in one conversation that forgets or mangles a line.
SPECIFICATION Spec
CONSTANTS
  Sector <- TwoSectors
  Image <- TwoImages
  Prompt <- PlainPrompts
  MaxDumps = 2
  MaxDamage = 1
  None = None
INVARIANTS
  CleanMountIsExact
  IntactTranscriptMountsNewest
  RestoredSectorsAreTrue
  LossesAreNamed
  MountKeepsOneSlot

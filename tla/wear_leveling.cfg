CONSTANTS
  WEAR_LEVELING_LOGICAL_SIZE = 8
  WEAR_LEVELING_BACKING_SIZE = 32
  Requests <- Blocks
  JunkBytes = {7}
  MaxFaults = 1
SPECIFICATION FairSpec
INVARIANTS TypeOK LogReadsBack ProgramsErasedFlash
PROPERTIES ImplementsStore StartCompletes

SPECIFICATION FairSpec
CONSTANTS
  MaxRing = 2
  Capacity <- MCCapacity
  MaxSeq = 1
  Sizes = {1}
  MaxCorrupt = 0
PROPERTY ResizeHandled

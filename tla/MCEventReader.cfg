SPECIFICATION FairSpec
CONSTANTS
  MaxRing = 3
  Capacity <- MCCapacity
  MaxSeq = 3
  Sizes = {1, 2}
  MaxCorrupt = 1
INVARIANTS TypeOK NeverTorn ReadPosAtEvent LostExact HandlesBalanced
PROPERTIES CorruptIsReal StreamSpec NextReturns Drains StaleReaderMoves

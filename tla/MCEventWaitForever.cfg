SPECIFICATION FairSpec
CONSTANTS
  Timeout <- Forever
  MaxWrite = 1
  CounterMod = 4
  BufferSize = 2
PROPERTY RaceClosed

SPECIFICATION FairSpec
CONSTANTS
  Timeout <- Second
  MaxWrite = 3
  CounterMod = 2
  BufferSize = 2
INVARIANTS AsleepArmed AwakeDisarmed
PROPERTIES WaitReturns AllRead

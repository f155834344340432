SPECIFICATION FairSpec
CONSTANTS
  Voices = 2
  End = 2
  CpuFlags <- const_CpuFlags
  CpuWrites = 3
  Resets = 1
  QuietStates <- const_Latch
INVARIANTS
  MirrorsExact
  EachVoiceOnce
  KeyOnFromStartBelowLast
PROPERTIES
  KeyBitsKept
  ExecuteReaches

SPECIFICATION Spec
CONSTANTS
  Voices = 2
  End = 2
  CpuFlags <- const_CpuFlags
  CpuWrites = 3
  Resets = 0
  QuietStates <- const_Free
INVARIANTS
  KeyOnFromStart

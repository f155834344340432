SPECIFICATION Spec
CONSTANTS
  W = 32
  H = 4
  Entries = 4
  FracBits = 4
  ChipByte <- MCByte
  Regs <- MCRegs
INVARIANTS OverrunTells
PROPERTIES LinesAsReference SnapshotMatches LineFinishes

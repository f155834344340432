SPECIFICATION Spec
CONSTANTS
  Rom = {r1}
  Shared = {}
  C352 = {}
  Inputs = {}
  Ram = {}
  Addr = {r1, ier, isr}
  Writable = {ier, isr}
  Ier = ier
  Isr = isr
  NoWord = none
  Classes = {"alu", "ldc", "store"}
  DivClocks = 32
  DivStates = 12
  Levels = {TRUE, FALSE}
  Matches = {FALSE}
  MinGap = 5
  MaxGap = 6
PROPERTIES NoIrqAfterCcr

SPECIFICATION Spec
CONSTANTS
  Rom = {r1}
  Shared = {}
  C352 = {}
  Inputs = {}
  Ram = {}
  Addr = {r1, ier, isr}
  Writable = {ier, isr}
  Ier = ier
  Isr = isr
  NoWord = none
  Classes = {"ldc", "store", "rte", "sleep"}
  DivClocks = 32
  DivStates = 12
  Levels = {TRUE, FALSE}
  Matches = {TRUE, FALSE}
  MinGap = 5
  MaxGap = 6
INVARIANTS EdgeKept
PROPERTIES TakenIsPending

SPECIFICATION FairSpec
CONSTANTS
  Rom = {r1}
  Shared = {s1, s2}
  C352 = {c1}
  Inputs = {in}
  Ram = {m1}
  Addr = {r1, s1, s2, c1, in, m1, ier, isr}
  Writable = {s1, s2, c1, in, m1, ier, isr}
  Ier = ier
  Isr = isr
  NoWord = none
  Classes = {"alu", "ldc", "load", "loadl", "store", "branch", "call", "rte", "trapa", "eepmov", "divide"}
  DivClocks = 32
  DivStates = 12
  Levels = {TRUE}
  Matches = {FALSE}
  MinGap = 5
  MaxGap = 6
INVARIANTS OwnWord OncePerRequest
PROPERTIES DivideReady RequestAnswered
